---------------------------- MODULE Spec2Model ----------------------------
(***************************************************************************)
(* Model of the folkrace wire codec (protocol/src/protocol.rs): the        *)
(* 256-byte frame buffer, the integer writer and matcher, and the          *)
(* write/parse pairs of BotCommand and BotEvent.                           *)
(*                                                                         *)
(* Bytes are numbers 0..255.  A ProtocolBuffer is a function               *)
(* 0..PROTOCOL_BUFFER_SIZE-1 -> byte.  i32 arithmetic keeps its width: an  *)
(* operation returns the wrapped value together with a flag telling that   *)
(* it overflowed; a build with overflow checks panics on the flag, a       *)
(* build without them goes on with the wrapped value.                      *)
(***************************************************************************)
EXTENDS Integers, Sequences, FiniteSets, TLC

VARIABLES
    overflow_checks,  \* build profile: TRUE = arithmetic overflow panics
    buf,              \* the ProtocolBuffer under test
    origin,           \* how buf was filled: "new", "write", "line", "damaged",
                      \* "rewrite", "overwrite", or "aborted" when the write
                      \* did not return
    sent,             \* the message last written into buf (NoMsg when none)
    wres,             \* outcome of the last write
    line,             \* index in Lines of the line buffer_from_str placed (0: none)
    res,              \* outcome of the last parse of buf
    ival,             \* integer codec: the value handed to write_i32
    itext,            \* integer codec: the bytes handed to match_i32
    iout,             \* integer codec: outcome of write_i32
    iin,              \* integer codec: outcome of match_i32
    msec,             \* section model: a wire section, its conversion, its
                      \* segments or its end heading; or an angle and what
                      \* normalize_angle makes of it
    map,              \* the Map under test
    mprev,            \* the Map as it was before the last operation on it
    mop,              \* the last operation on the Map and its arguments
    mq,               \* the last index query on the Map and its answers
    calls,            \* number of operations made on the Map
    ui_state,         \* the UiState of the control panel, with the moves of
                      \* the activity in the last pass of gui()
    motor_power       \* the four motor powers of the simulated car

vars == <<overflow_checks, buf, origin, sent, wres, line, res,
          ival, itext, iout, iin, msec, map, mprev, mop, mq, calls,
          ui_state, motor_power>>

codec_vars == <<buf, origin, sent, wres, line, res>>
int_vars == <<ival, itext, iout, iin>>
map_vars == <<msec, map, mprev, mop, mq, calls>>
ui_vars == <<ui_state, motor_power>>

---------------------------------------------------------------------------
(* Program constants *)

PROTOCOL_BUFFER_SIZE == 256
LASER_COUNT == 20
MAX_LOG_LINE_SIZE == 200

CODE_MINUS == 45
CODE_SEPARATOR == 58
CODE_END == 10
CODE_ZERO == 48
CODE_NINE == 57

I32_MAX == 2147483647
I32_MIN == (-I32_MAX) - 1
U8_MOD == 256
I32_BITS == 32

(* Keywords, as ASCII codes *)
MAP_START == <<77, 65, 80, 45, 83, 84, 65, 82, 84>>
MAP_SECTION == <<77, 65, 80, 45, 83, 69, 67, 84, 73, 79, 78>>
MAP_END == <<77, 65, 80, 45, 69, 78, 68>>
\* a keyword that begins another one
RESET_short == <<82, 69, 83>>
RESET == <<82, 69, 83, 69, 84>>
START == <<83, 84, 65, 82, 84>>
PAUSE == <<80, 65, 85, 83, 69>>
RESTART == <<82, 69, 83, 84, 65, 82, 84>>
DIRECT == <<68, 73, 82, 69, 67, 84>>

STRAIGHT == <<83, 84, 82, 65, 73, 71, 72, 84>>
LEFT == <<76, 69, 70, 84>>
RIGHT == <<82, 73, 71, 72, 84>>
UP == <<85, 80>>
DOWN == <<68, 79, 87, 78>>

STATUS == <<83, 84, 65, 84, 85, 83>>
LASERS == <<76, 65, 83, 69, 82, 83>>
IMU == <<73, 77, 85>>
LOG == <<76, 79, 71>>

INVALID_MAP == <<73, 78, 86, 65, 76, 73, 68, 45, 77, 65, 80>>
DEVICE_ERROR == <<68, 69, 86, 73, 67, 69, 45, 69, 82, 82, 79, 82>>
STOPPED == <<83, 84, 79, 80, 80, 69, 68>>
WAITING == <<87, 65, 73, 84, 73, 78, 71>>
RACING == <<82, 65, 67, 73, 78, 71>>

BufIndex == 0..(PROTOCOL_BUFFER_SIZE - 1)

new_protocol_buffer == [i \in BufIndex |-> 0]

---------------------------------------------------------------------------
(* i32 and u8 arithmetic.  Each operation yields [v |-> wrapped result,    *)
(* o |-> it overflowed].                                                   *)

add_i32(a, b) ==
    IF b > 0 /\ a > I32_MAX - b
    THEN [v |-> (a - I32_MAX - 1) + (b - I32_MAX - 1), o |-> TRUE]
    ELSE IF b < 0 /\ a < I32_MIN - b
    THEN [v |-> (a + I32_MAX + 1) + (b + I32_MAX + 1), o |-> TRUE]
    ELSE [v |-> a + b, o |-> FALSE]

\* a + a in i32, wrapped
twice_i32(a) == add_i32(a, a).v

\* a * 10 in i32: 8a + 2a wrapped; it overflows when a * 10 is no i32
mul10_i32(a) ==
    [v |-> add_i32(twice_i32(twice_i32(twice_i32(a))), twice_i32(a)).v,
     o |-> a > I32_MAX \div 10 \/ a < -(I32_MAX \div 10)]

neg_i32(a) ==
    IF a = I32_MIN THEN [v |-> I32_MIN, o |-> TRUE] ELSE [v |-> -a, o |-> FALSE]

\* Rust's / on i32 truncates toward zero; b > 0 at every use
div_i32(a, b) ==
    IF a >= 0 THEN a \div b
    ELSE LET m == -(a + 1)
         IN (-(m \div b)) - (IF m % b = b - 1 THEN 1 ELSE 0)

\* Rust's % on i32 takes the sign of the dividend
rem_i32(a, b) == a - b * div_i32(a, b)

digit_value(code) ==
    IF code >= CODE_ZERO /\ code <= CODE_NINE THEN code - CODE_ZERO ELSE -1

digit_code(digit) ==
    LET d8 == digit % U8_MOD
    IN [v |-> (d8 + CODE_ZERO) % U8_MOD, o |-> d8 + CODE_ZERO >= U8_MOD]

---------------------------------------------------------------------------
(* Writing.  A writer state w is [buf, index, ovf, oob, hang]: the buffer, *)
(* the next index, whether an arithmetic overflow happened, whether an     *)
(* index outside the buffer was written (a panic), and whether a loop      *)
(* that never ends was entered.  After oob or hang nothing more happens.   *)

Writer(b, i) == [buf |-> b, index |-> i, ovf |-> FALSE, oob |-> FALSE, hang |-> FALSE]

Halted(w) == w.oob \/ w.hang

append_code(w, code) ==
    IF Halted(w) THEN w
    ELSE IF w.index >= PROTOCOL_BUFFER_SIZE THEN [w EXCEPT !.oob = TRUE]
    ELSE [w EXCEPT !.buf[w.index] = code, !.index = w.index + 1]

append_separator(w) == append_code(w, CODE_SEPARATOR)

append_end(w) == append_code(w, CODE_END)

\* for c in s.chars() { buf[index] = c as u8; index += 1 }: the bytes of s land
\* from index on; a store at an index outside the buffer panics
write_string(w, s) ==
    IF Halted(w) THEN w
    ELSE IF w.index + Len(s) > PROTOCOL_BUFFER_SIZE THEN [w EXCEPT !.oob = TRUE]
    ELSE [w EXCEPT !.buf = [i \in BufIndex |->
                              IF i >= w.index /\ i < w.index + Len(s)
                              THEN s[i - w.index + 1] ELSE w.buf[i]],
                   !.index = w.index + Len(s)]

\* one turn of `while pow10 <= value { pow10 *= 10 }` on [v, o, hang, done]:
\* done when the condition fails, when the multiplication overflows in a
\* build that checks it, and when pow10 is 0 with value >= 0, from where the
\* loop never ends
pow10_step(p, value) ==
    IF ~(p.v <= value) THEN [p EXCEPT !.done = TRUE]
    ELSE IF p.v = 0 THEN [p EXCEPT !.hang = TRUE, !.done = TRUE]
    ELSE LET grown(m) == [v |-> m.v, o |-> p.o \/ m.o, hang |-> FALSE,
                          done |-> m.o /\ overflow_checks]
         IN grown(mul10_i32(p.v))

\* n turns of the loop: the first half of them, then the others
RECURSIVE pow10_turns(_, _, _)
pow10_turns(p, value, n) ==
    CASE p.done -> p
      [] n = 1 -> pow10_step(p, value)
      [] OTHER -> pow10_turns(pow10_turns(p, value, n \div 2), value, n - (n \div 2))

\* while pow10 <= value { pow10 *= 10 }: [v, o, hang, done].  pow10 is a
\* power of ten modulo 2^I32_BITS, which is 0 from the I32_BITS-th power on,
\* so the loop is over or stuck within I32_BITS turns.
pow10_grow(pow10, value, o) ==
    pow10_turns([v |-> pow10, o |-> o, hang |-> FALSE, done |-> FALSE], value, I32_BITS)

\* one turn of `while pow10 > 0 { digit = value / pow10; value %= pow10;
\* pow10 /= 10; buf[index] = digit_code(digit); index += 1 }` on [w, value, pow10]
\* and done: the loop is over, or a store outside the buffer has panicked
digits_step(d) ==
    LET stored(c) == append_code([d.w EXCEPT !.ovf = @ \/ c.o], c.v)
        stepped(w1, p1) == [w |-> w1, value |-> rem_i32(d.value, d.pow10), pow10 |-> p1,
                            done |-> ~(p1 > 0) \/ Halted(w1)]
    IN stepped(stored(digit_code(div_i32(d.value, d.pow10))), div_i32(d.pow10, 10))

\* n turns of the loop: the first half of them, then the others
RECURSIVE digits_turns(_, _)
digits_turns(d, n) ==
    CASE d.done -> d
      [] n = 1 -> digits_step(d)
      [] OTHER -> digits_turns(digits_turns(d, n \div 2), n - (n \div 2))

\* the second loop of write_i32; pow10 loses a digit at each turn and is
\* below 2^I32_BITS, so the loop is over within I32_BITS turns
write_digits(w, value, pow10) ==
    digits_turns([w |-> w, value |-> value, pow10 |-> pow10,
                  done |-> ~(pow10 > 0) \/ Halted(w)], I32_BITS).w

write_i32(w, value) ==
    LET \* buf[index] = CODE_MINUS; value = -value; index += 1
        minus(a, n) == IF a.oob THEN a ELSE [a EXCEPT !.ovf = @ \/ n.o]
        \* the two loops, on the writer w1 and the value v1 they start from
        digits(w1, v1, p) ==
            CASE w1.oob -> w1
              [] p.hang -> [w1 EXCEPT !.ovf = @ \/ p.o, !.hang = TRUE]
              [] OTHER -> write_digits([w1 EXCEPT !.ovf = @ \/ p.o], v1, div_i32(p.v, 10))
        nonzero(w1, v1) == digits(w1, v1, pow10_grow(10, v1, FALSE))
    IN CASE w.oob \/ w.hang -> w
         [] value = 0 -> append_code(w, digit_code(0).v)
         [] OTHER -> nonzero(IF value < 0
                             THEN minus(append_code(w, CODE_MINUS), neg_i32(value))
                             ELSE w,
                             IF value < 0 THEN neg_i32(value).v ELSE value)

---------------------------------------------------------------------------
(* Matching.  A match result is [st, index]: st = "Ok" with the next       *)
(* index, st = "Err" with the index of the wrong character, or             *)
(* st = "Panic" when the index read lies outside the buffer.               *)

Ok(i) == [st |-> "Ok", index |-> i]
Err(i) == [st |-> "Err", index |-> i]
Panic(i) == [st |-> "Panic", index |-> i]

\* a match_code that reports the byte after the wrong one
match_code_late(b, index, code) ==
    IF index >= PROTOCOL_BUFFER_SIZE THEN Panic(index)
    ELSE IF b[index] = code THEN Ok(index + 1)
    ELSE Err(index + 1)

match_code(b, index, code) ==
    IF index >= PROTOCOL_BUFFER_SIZE THEN Panic(index)
    ELSE IF b[index] = code THEN Ok(index + 1)
    ELSE Err(index)

match_separator(b, index) == match_code(b, index, CODE_SEPARATOR)

match_end(b, index) == match_code(b, index, CODE_END)

\* for c in s.chars() { if buf[index] != c as u8 { return Err(index) } index += 1 }:
\* the loop stops at the first character of s that the buffer does not hold,
\* or panics there when its index lies outside the buffer
match_string(b, index, s) ==
    LET at(i) == IF i >= PROTOCOL_BUFFER_SIZE THEN Panic(i) ELSE Err(i)
        first(stops) ==
            IF stops = {} THEN Ok(index + Len(s))
            ELSE at(index + (CHOOSE k \in stops : \A j \in stops : k <= j) - 1)
    IN first({k \in 1..Len(s) :
                \/ index + k - 1 >= PROTOCOL_BUFFER_SIZE
                \/ b[index + k - 1] # s[k]})

\* has_digit(buf[i]) for every i from index to the end of the buffer
digits_to_end(b, index) ==
    \A i \in index..(PROTOCOL_BUFFER_SIZE - 1) : digit_value(b[i]) # -1

\* the index at which the loop of match_i32 breaks: the first one from index
\* on whose byte is no digit
digits_end(b, index) ==
    LET least(nd) == CHOOSE i \in nd : \A j \in nd : i <= j
    IN least({i \in index..(PROTOCOL_BUFFER_SIZE - 1) : digit_value(b[i]) = -1})

\* value *= 10; value += v; index += 1, on the state [st, index, value, ovf]
\* of the loop; a build with overflow checks panics at the overflow
match_digit(r, v) ==
    LET next(value, o) ==
            [st |-> IF o /\ overflow_checks THEN "Panic" ELSE "Ok",
             index |-> IF o /\ overflow_checks THEN r.index ELSE r.index + 1,
             value |-> value, ovf |-> r.ovf \/ o]
        added(m, a) == next(a.v, m.o \/ a.o)
        times10(m) == added(m, add_i32(m.v, v))
    IN times10(mul10_i32(r.value))

\* the iterations of the loop over the digits at lo..hi - 1, in order: those
\* of the first half, then those of the second half on the state they left
RECURSIVE match_digits_range(_, _, _, _)
match_digits_range(b, r, lo, hi) ==
    CASE r.st # "Ok" \/ lo >= hi -> r
      [] hi = lo + 1 -> match_digit(r, digit_value(b[lo]))
      [] OTHER -> match_digits_range(b, match_digits_range(b, r, lo, (lo + hi) \div 2),
                                     (lo + hi) \div 2, hi)

\* loop { match has_digit(buf[index]) { Some(v) => { value *= 10; value += v;
\* index += 1 } None => break } }: [st, index, value, ovf].  Nothing bounds
\* index: when every byte up to the end of the buffer is a digit the loop
\* reads buf[PROTOCOL_BUFFER_SIZE], which panics in every build, whatever
\* value has become by then.
match_digits(b, index, value, ovf) ==
    IF digits_to_end(b, index)
    THEN [st |-> "Panic", index |-> PROTOCOL_BUFFER_SIZE, value |-> value, ovf |-> ovf]
    ELSE match_digits_range(b, [st |-> "Ok", index |-> index, value |-> value,
                                ovf |-> ovf],
                            index, digits_end(b, index))

match_i32(b, index) ==
    IF index >= PROTOCOL_BUFFER_SIZE
    THEN [st |-> "Panic", index |-> index, value |-> 0, ovf |-> FALSE]
    ELSE LET negative == b[index] = CODE_MINUS
             \* Ok((if negative { -value } else { value }, index))
             signed(d, n) == IF d.st = "Ok" /\ negative
                             THEN [d EXCEPT !.value = n.v, !.ovf = @ \/ n.o]
                             ELSE d
             matched(d) == signed(d, neg_i32(d.value))
             from(i1) ==
                 IF i1 >= PROTOCOL_BUFFER_SIZE
                 THEN [st |-> "Panic", index |-> i1, value |-> 0, ovf |-> FALSE]
                 ELSE IF digit_value(b[i1]) = -1
                 THEN [st |-> "Err", index |-> i1, value |-> 0, ovf |-> FALSE]
                 ELSE matched(match_digits(b, i1 + 1, digit_value(b[i1]), FALSE))
         IN from(IF negative THEN index + 1 ELSE index)

---------------------------------------------------------------------------
(* Outcomes.  A build with overflow checks panics at the first overflow;   *)
(* a build without them panics only on an index outside the buffer, and    *)
(* may enter a loop that never ends.                                       *)

WriteTag(w) ==
    IF w.ovf /\ overflow_checks THEN "Panic"
    ELSE IF w.hang THEN "Hang"
    ELSE IF w.oob THEN "Panic"
    ELSE "Ok"

MatchTag(r, ovf) ==
    IF ovf /\ overflow_checks THEN "Panic" ELSE r.st

\* the bytes b[from], ..., b[to - 1]
Slice(b, from, to) == [k \in 1..(to - from) |-> b[from + k - 1]]

\* the buffer b holding the bytes of s from index at on
Place(b, at, s) ==
    [i \in BufIndex |-> IF i >= at /\ i < at + Len(s) THEN s[i - at + 1] ELSE b[i]]

---------------------------------------------------------------------------
(* Reference decimal notation, used to state the claims and to build the   *)
(* input lines.                                                            *)

RECURSIVE Digits(_)
Digits(n) ==
    IF n < 10 THEN <<CODE_ZERO + n>>
    ELSE Digits(n \div 10) \o <<CODE_ZERO + (n % 10)>>

\* canonical signed decimal of an i32
Canon(v) ==
    IF v >= 0 THEN Digits(v)
    ELSE IF v = I32_MIN
    THEN <<CODE_MINUS>> \o Digits(I32_MAX \div 10) \o <<CODE_ZERO + ((I32_MAX % 10) + 1)>>
    ELSE <<CODE_MINUS>> \o Digits(-v)

Zeros(n) == [k \in 1..n |-> CODE_ZERO]

---------------------------------------------------------------------------
(* The integer codec on its own: write_i32 and match_i32 applied to        *)
(* inputs drawn from bounded sets.                                         *)

MaxStart == 1          \* write_i32 / match_i32 start at index 0..MaxStart
MaxLeadingZeros == 2   \* non-canonical digit runs carry up to this many zeros

\* values written: every digit count, the powers of ten, the extremes
IntValues ==
    {0, 1, -1, 7, 9, 10, -10, 42, 99, 100, -100, 101, 800, 1000, -1000, 1010,
     30000, 65535, -99999, 123456, 1000000, 12345678, 99999999, 100000000,
     -987654321, 999999999, -999999999,
     1000000000, -1000000000, 1410065407, 1410065408, 2000000000, I32_MAX,
     -I32_MAX, I32_MIN}

\* magnitudes read back, each within i32
IntMagnitudes == {0, 1, 7, 9, 10, 42, 100, 800, 1000, 99999, 999999999,
                  1000000000, 2147483646, I32_MAX}

\* digit runs that denote no i32, whatever the sign
WideRuns == {Digits(I32_MAX \div 10) \o <<CODE_NINE>>,
             Digits(999999999) \o Digits(99)}

\* the digits of 2147483648: an i32 behind a '-', no i32 without
MinDigits == Digits(I32_MAX \div 10) \o <<CODE_ZERO + ((I32_MAX % 10) + 1)>>

Terminators == {CODE_SEPARATOR, CODE_END, 0, 88}

NoInt == [kind |-> "none"]

\* the integer codec at rest, as in every state of the message codec
IntIdle ==
    /\ ival = 0
    /\ itext = NoInt
    /\ iout = NoInt
    /\ iin = NoInt

\* a run of bytes: fits says that it denotes the i32 val
Run(neg, zeros, digits, fits, val, term, start) ==
    [kind |-> "run", neg |-> neg, zeros |-> zeros, digits |-> digits, fits |-> fits,
     val |-> val, term |-> term, start |-> start]

\* an optional '-', leading zeros and digits, then a byte that is no digit
IntRuns ==
    UNION {
        {Run(neg, zeros, Digits(mag), TRUE, IF neg THEN -mag ELSE mag, term, start) :
            mag \in IntMagnitudes, zeros \in 0..MaxLeadingZeros}
        \cup {Run(neg, zeros, MinDigits, neg, IF neg THEN I32_MIN ELSE 0, term, start) :
            zeros \in 0..MaxLeadingZeros}
        \cup {Run(neg, zeros, run, FALSE, 0, term, start) :
            run \in WideRuns, zeros \in 0..MaxLeadingZeros}
        \cup {Run(neg, 0, <<>>, FALSE, 0, term, start)} :
        neg \in BOOLEAN, term \in Terminators, start \in 0..MaxStart}

RunText(t) ==
    (IF t.neg THEN <<CODE_MINUS>> ELSE <<>>) \o Zeros(t.zeros) \o t.digits

\* the inputs are drawn here: a value to write at index iout.start, or a
\* run of bytes to match
IntInit ==
    \/ /\ ival \in IntValues
       /\ \E start \in 0..MaxStart : iout = [kind |-> "todo", start |-> start]
       /\ itext = NoInt
       /\ iin = NoInt
    \/ /\ itext \in IntRuns
       /\ iin = [kind |-> "todo"]
       /\ ival = 0
       /\ iout = NoInt

\* the highest index of a fresh buffer that holds a written byte (no byte
\* write_i32 writes is 0), start - 1 when there is none
last_written(b, start) ==
    LET greatest(nz) == IF nz = {} THEN start - 1
                        ELSE CHOOSE i \in nz : \A j \in nz : j <= i
    IN greatest({i \in BufIndex : b[i] # 0})

\* write_i32(buf, start, ival) on a fresh buffer
IntWrite ==
    /\ iout.kind = "todo"
    /\ LET start == iout.start
           written(w, tag) ==
               [kind |-> "write", tag |-> tag, start |-> start, ovf |-> w.ovf,
                index |-> IF tag = "Ok" THEN w.index ELSE start,
                text |-> IF tag = "Ok" THEN Slice(w.buf, start, w.index) ELSE <<>>,
                last |-> IF tag = "Ok" THEN last_written(w.buf, start) ELSE start]
           returned(w) == written(w, WriteTag(w))
       IN iout' = returned(write_i32(Writer(new_protocol_buffer, start), ival))
    /\ UNCHANGED <<ival, itext, iin, overflow_checks, ui_vars, codec_vars, map_vars>>

\* match_i32(buf, start) on a buffer holding the run and its terminator
IntMatch ==
    /\ iin.kind = "todo"
    /\ LET matched(r) == [kind |-> "match", tag |-> MatchTag(r, r.ovf), index |-> r.index,
                          value |-> r.value]
       IN iin' = matched(match_i32(Place(new_protocol_buffer, itext.start,
                                         RunText(itext) \o <<itext.term>>),
                                   itext.start))
    /\ UNCHANGED <<ival, itext, iout, overflow_checks, ui_vars, codec_vars, map_vars>>

---------------------------------------------------------------------------
(* Messages.  A usize is modelled as [hi, lo]: hi = FALSE is the value lo  *)
(* (0 <= lo <= I32_MAX); hi = TRUE is a value whose bit 31 and all higher  *)
(* bits are set and whose low 31 bits are lo, which is what a negative     *)
(* i32 becomes under `as usize`.                                           *)

usize(n) == [hi |-> FALSE, lo |-> n]

as_usize(v) ==
    IF v >= 0 THEN [hi |-> FALSE, lo |-> v]
    ELSE [hi |-> TRUE, lo |-> (v + I32_MAX) + 1]

as_i32(u) == IF u.hi THEN (u.lo - I32_MAX) - 1 ELSE u.lo

NoMsg == [kind |-> "None"]

\* impl PartialEq for ProtocolLogLineData
log_eq(a, b) ==
    /\ a.length = b.length
    /\ \A i \in 0..(a.length - 1) : a.message[i] = b.message[i]

\* derived PartialEq of BotCommand and BotEvent
msg_eq(a, b) ==
    IF a.kind = "Log" /\ b.kind = "Log" THEN log_eq(a, b) ELSE a = b

\* index = append_separator(buf, index); index = write_i32(buf, index, v), for each v
\* the fields vals[lo], ..., vals[hi] in order: those of the first half, then
\* those of the second half after them
RECURSIVE write_fields_range(_, _, _, _)
write_fields_range(w, vals, lo, hi) ==
    CASE w.oob \/ w.hang \/ lo > hi -> w
      [] lo = hi -> write_i32(append_separator(w), vals[lo])
      [] OTHER -> write_fields_range(write_fields_range(w, vals, lo, (lo + hi) \div 2),
                                     vals, ((lo + hi) \div 2) + 1, hi)

write_fields(w, vals) == write_fields_range(w, vals, 1, Len(vals))

\* for i in 0..evt.length { index = append_code(buf, index, evt.message[i]) }
\* (each append_code stores one byte and advances index; a store at an index
\* outside the buffer panics)
write_log_bytes(w, evt) ==
    IF Halted(w) THEN w
    ELSE IF w.index + evt.length > PROTOCOL_BUFFER_SIZE
    THEN [w EXCEPT !.oob = TRUE]
    ELSE [w EXCEPT !.buf = [i \in BufIndex |->
                              IF i >= w.index /\ i < w.index + evt.length
                              THEN evt.message[i - w.index] ELSE w.buf[i]],
                   !.index = w.index + evt.length]

BotCommand_write(b, cmd) ==
    LET w0 == Writer(b, 0)
        \* match cmd.data, on the writer w2 left after the section index
        section(w2, d) ==
            CASE cmd.shape = "Straight" ->
                   write_fields(write_string(w2, STRAIGHT),
                                <<d.length, d.width_start, d.width_end>>)
              [] cmd.shape = "TurnLeft" ->
                   write_fields(write_string(w2, LEFT),
                                <<d.angle, d.width_start, d.width_end,
                                  d.radius_start, d.radius_end>>)
              [] cmd.shape = "TurnRight" ->
                   write_fields(write_string(w2, RIGHT),
                                <<d.angle, d.width_start, d.width_end,
                                  d.radius_start, d.radius_end>>)
              [] cmd.shape = "SlopeUp" ->
                   write_fields(write_string(w2, UP),
                                <<d.length, d.height, d.width_start, d.width_end>>)
              [] cmd.shape = "SlopeDown" ->
                   write_fields(write_string(w2, DOWN),
                                <<d.length, d.height, d.width_start, d.width_end>>)
        body ==
          CASE cmd.kind = "MapStart" ->
                 write_fields(write_string(w0, MAP_START), <<as_i32(cmd.count)>>)
            [] cmd.kind = "MapSection" ->
                 section(append_separator(write_fields(write_string(w0, MAP_SECTION),
                                                       <<as_i32(cmd.index)>>)),
                         cmd.data)
            [] cmd.kind = "MapEnd" -> write_string(w0, MAP_END)
            [] cmd.kind = "Reset" -> write_string(w0, RESET)
            [] cmd.kind = "Start" -> write_string(w0, START)
            [] cmd.kind = "Pause" -> write_string(w0, PAUSE)
            [] cmd.kind = "Restart" -> write_string(w0, RESTART)
            [] cmd.kind = "Direct" ->
                 write_fields(write_string(w0, DIRECT),
                              <<cmd.back_left, cmd.back_right,
                                cmd.front_left, cmd.front_right>>)
    IN append_end(body)

BotEvent_write(b, evt) ==
    LET w0 == Writer(b, 0)
        \* match status, on the writer w1 left after the separator
        status(w1) ==
            CASE evt.state = "InvalidMap" -> write_string(w1, INVALID_MAP)
              [] evt.state = "DeviceError" -> write_string(w1, DEVICE_ERROR)
              [] evt.state = "Stopped" -> write_string(w1, STOPPED)
              [] evt.state = "Waiting" ->
                   write_fields(write_string(w1, WAITING), <<evt.target, evt.elapsed>>)
              [] evt.state = "Racing" ->
                   write_fields(write_string(w1, RACING),
                                <<as_i32(evt.section), evt.completion_low,
                                  evt.completion_high, evt.positioning_left,
                                  evt.positioning_right>>)
        body ==
          CASE evt.kind = "Status" -> status(append_separator(write_string(w0, STATUS)))
            [] evt.kind = "Lasers" -> write_fields(write_string(w0, LASERS), evt.data)
            [] evt.kind = "Imu" ->
                 write_fields(write_string(w0, IMU),
                              <<evt.rotation_x, evt.rotation_y, evt.rotation_z,
                                evt.acceleration_x, evt.acceleration_y, evt.acceleration_z,
                                evt.gravity_x, evt.gravity_y, evt.gravity_z>>)
            [] evt.kind = "Log" ->
                 write_log_bytes(append_separator(write_string(w0, LOG)), evt)
    IN append_end(body)

---------------------------------------------------------------------------
(* Parsing.  A field result is [st, index, vals, ovf]: the values matched  *)
(* so far and whether accumulating them overflowed.                        *)

Fields(st, index, vals, ovf) == [st |-> st, index |-> index, vals |-> vals, ovf |-> ovf]

\* index = match_separator(buf, index)?; let (v, next) = match_i32(buf, index)?;
\* index = next, on the fields matched so far
match_field(b, r) ==
    LET number(m) ==
            IF m.st # "Ok" THEN Fields(m.st, m.index, r.vals, r.ovf \/ m.ovf)
            ELSE Fields("Ok", m.index, Append(r.vals, m.value), r.ovf \/ m.ovf)
        separator(s) ==
            IF s.st # "Ok" THEN Fields(s.st, s.index, r.vals, r.ovf)
            ELSE number(match_i32(b, s.index))
    IN separator(match_separator(b, r.index))

\* n fields in order: the first half, then the second half after them; the
\* first failure ends the parse
RECURSIVE match_fields_after(_, _, _)
match_fields_after(b, r, n) ==
    CASE r.st # "Ok" \/ n = 0 -> r
      [] n = 1 -> match_field(b, r)
      [] OTHER -> match_fields_after(b, match_fields_after(b, r, n \div 2), n - (n \div 2))

match_fields(b, index, n) == match_fields_after(b, Fields("Ok", index, <<>>, FALSE), n)

\* match_end(buf, index)? after the fields; on Ok, index is where the terminator is
then_end(b, r) ==
    LET ended(e) == IF e.st = "Ok" THEN r ELSE Fields(e.st, e.index, r.vals, r.ovf)
    IN IF r.st # "Ok" THEN r ELSE ended(match_end(b, r.index))

\* the chain `if let Ok(next) = match_string(buf, index, K1) ... else if let
\* Ok(next) = match_string(buf, index, K2) ...`: the first keyword of kws that
\* matches at index, as [st, which, index]; st = "Err" when none does
RECURSIVE first_keyword(_, _, _, _)
first_keyword(b, index, kws, k) ==
    IF k > Len(kws) THEN [st |-> "Err", which |-> 0, index |-> index]
    ELSE LET tried(m) ==
                 IF m.st = "Ok" THEN [st |-> "Ok", which |-> k, index |-> m.index]
                 ELSE IF m.st = "Panic" THEN [st |-> "Panic", which |-> k, index |-> m.index]
                 ELSE first_keyword(b, index, kws, k + 1)
         IN tried(match_string(b, index, kws[k]))

CommandKeywords == <<MAP_START, MAP_SECTION, MAP_END, RESET, START, PAUSE, RESTART, DIRECT>>
ShapeKeywords == <<STRAIGHT, LEFT, RIGHT, UP, DOWN>>
EventKeywords == <<STATUS, LASERS, IMU, LOG>>
\* a chain that tries RACING before WAITING and takes each for the other
StateKeywords_swapped == <<INVALID_MAP, DEVICE_ERROR, STOPPED, RACING, WAITING>>

StateKeywords == <<INVALID_MAP, DEVICE_ERROR, STOPPED, WAITING, RACING>>

\* Result<Self, usize> of a parse, with the panics a build can produce
Parsed(of, r, val) ==
    LET tagged(tag) == [of |-> of, tag |-> tag, index |-> r.index,
                        val |-> IF tag = "Ok" THEN val ELSE NoMsg]
    IN tagged(MatchTag(r, r.ovf))

\* a turn whose radii are read in the other order
TurnData_swapped(v) == [angle |-> v[1], width_start |-> v[2], width_end |-> v[3],
                        radius_start |-> v[5], radius_end |-> v[4]]

TurnData(v) == [angle |-> v[1], width_start |-> v[2], width_end |-> v[3],
                radius_start |-> v[4], radius_end |-> v[5]]
SlopeData(v) == [length |-> v[1], height |-> v[2], width_start |-> v[3],
                 width_end |-> v[4]]
StraightData(v) == [length |-> v[1], width_start |-> v[2], width_end |-> v[3]]

\* the MAP-SECTION branch of BotCommand::parse, after the keyword
parse_map_section(b, index) ==
    LET \* the fields of the shape and the terminator are matched
        section(h, which, f) ==
            Parsed("cmd", Fields(f.st, f.index, f.vals, h.ovf \/ f.ovf),
                   [kind |-> "MapSection", index |-> as_usize(h.vals[1]),
                    shape |-> CASE which = 1 -> "Straight"
                                [] which = 2 -> "TurnLeft"
                                [] which = 3 -> "TurnRight"
                                [] which = 4 -> "SlopeUp"
                                [] OTHER -> "SlopeDown",
                    data |-> IF which = 1 THEN StraightData(f.vals)
                             ELSE IF which \in {2, 3} THEN TurnData(f.vals)
                             ELSE SlopeData(f.vals)])
        \* the shape keyword is tried
        shape(h, kw) ==
            IF kw.st # "Ok" THEN Parsed("cmd", Fields(kw.st, kw.index, <<>>, h.ovf), NoMsg)
            ELSE section(h, kw.which,
                         then_end(b, match_fields(b, kw.index,
                                                  IF kw.which = 1 THEN 3
                                                  ELSE IF kw.which \in {2, 3} THEN 5
                                                  ELSE 4)))
        \* the separator before the shape keyword is matched
        separator(h, s) ==
            IF s.st # "Ok" THEN Parsed("cmd", Fields(s.st, s.index, <<>>, h.ovf), NoMsg)
            ELSE shape(h, first_keyword(b, s.index, ShapeKeywords, 1))
        \* the section index is matched
        head(h) ==
            IF h.st # "Ok" THEN Parsed("cmd", h, NoMsg)
            ELSE separator(h, match_separator(b, h.index))
    IN head(match_fields(b, index, 1))

BotCommand_parse(b) ==
    LET map_start(r) ==
            Parsed("cmd", r, [kind |-> "MapStart", count |-> as_usize(r.vals[1])])
        direct(r) ==
            Parsed("cmd", r,
                   [kind |-> "Direct", back_left |-> r.vals[1],
                    back_right |-> r.vals[2], front_left |-> r.vals[3],
                    front_right |-> r.vals[4]])
        keyword(kw) ==
            CASE kw.st # "Ok" -> Parsed("cmd", Fields(kw.st, kw.index, <<>>, FALSE), NoMsg)
              [] kw.st = "Ok" /\ kw.which = 1 ->
                   map_start(then_end(b, match_fields(b, kw.index, 1)))
              [] kw.st = "Ok" /\ kw.which = 2 -> parse_map_section(b, kw.index)
              [] kw.st = "Ok" /\ kw.which \in 3..7 ->
                   Parsed("cmd", then_end(b, Fields("Ok", kw.index, <<>>, FALSE)),
                          [kind |-> CASE kw.which = 3 -> "MapEnd"
                                      [] kw.which = 4 -> "Reset"
                                      [] kw.which = 5 -> "Start"
                                      [] kw.which = 6 -> "Pause"
                                      [] OTHER -> "Restart"])
              [] kw.st = "Ok" /\ kw.which = 8 ->
                   direct(then_end(b, match_fields(b, kw.index, 4)))
    IN keyword(first_keyword(b, 0, CommandKeywords, 1))

\* the STATUS branch of BotEvent::parse, after the keyword
parse_status(b, index) ==
    LET \* the fields of the state and the terminator are matched
        status(which, f) ==
            Parsed("evt", f,
                   CASE which = 1 -> [kind |-> "Status", state |-> "InvalidMap"]
                     [] which = 2 -> [kind |-> "Status", state |-> "DeviceError"]
                     [] which = 3 -> [kind |-> "Status", state |-> "Stopped"]
                     [] which = 4 -> [kind |-> "Status", state |-> "Waiting",
                                      target |-> f.vals[1], elapsed |-> f.vals[2]]
                     [] OTHER -> [kind |-> "Status", state |-> "Racing",
                                  section |-> as_usize(f.vals[1]),
                                  completion_low |-> f.vals[2],
                                  completion_high |-> f.vals[3],
                                  positioning_left |-> f.vals[4],
                                  positioning_right |-> f.vals[5]])
        \* the state keyword is tried
        state(kw) ==
            IF kw.st # "Ok" THEN Parsed("evt", Fields(kw.st, kw.index, <<>>, FALSE), NoMsg)
            ELSE status(kw.which,
                        then_end(b, match_fields(b, kw.index,
                                                 IF kw.which = 4 THEN 2
                                                 ELSE IF kw.which = 5 THEN 5
                                                 ELSE 0)))
        separator(s) ==
            IF s.st # "Ok" THEN Parsed("evt", Fields(s.st, s.index, <<>>, FALSE), NoMsg)
            ELSE state(first_keyword(b, s.index, StateKeywords, 1))
    IN separator(match_separator(b, index))

\* for i in 0..MAX_LOG_LINE_SIZE { if buf[index] != CODE_END { data.message[i] =
\* buf[index]; index += 1 } else { data.length = i; break } }, as [st, index,
\* length, message]: the loop copies bytes up to the first newline among the
\* next MAX_LOG_LINE_SIZE bytes, and assigns length only when it breaks there
log_scan(b, index) ==
    LET \* n bytes are copied; broke: the loop met a newline or left the buffer
        copied(n, broke, out) ==
            [st |-> IF out THEN "Panic" ELSE "Ok",
             index |-> index + n,
             length |-> IF ~broke \/ out THEN 0 ELSE n,
             message |-> [i \in 0..(MAX_LOG_LINE_SIZE - 1) |->
                            IF i < n THEN b[index + i] ELSE 0]]
        stopped(n, broke) == copied(n, broke, broke /\ index + n >= PROTOCOL_BUFFER_SIZE)
        scan(stops) ==
            stopped(IF stops = {} THEN MAX_LOG_LINE_SIZE
                    ELSE CHOOSE i \in stops : \A j \in stops : i <= j,
                    stops # {})
    IN scan({i \in 0..(MAX_LOG_LINE_SIZE - 1) :
               index + i >= PROTOCOL_BUFFER_SIZE \/ b[index + i] = CODE_END})

\* the LOG branch of BotEvent::parse, after the keyword
parse_log(b, index) ==
    LET message(l) ==
            Parsed("evt", then_end(b, Fields(l.st, l.index, <<>>, FALSE)),
                   [kind |-> "Log", length |-> l.length, message |-> l.message])
        separator(s) ==
            IF s.st # "Ok" THEN Parsed("evt", Fields(s.st, s.index, <<>>, FALSE), NoMsg)
            ELSE message(log_scan(b, s.index))
    IN separator(match_separator(b, index))

BotEvent_parse(b) ==
    LET lasers(r) == Parsed("evt", r, [kind |-> "Lasers", data |-> r.vals])
        imu(r) ==
            Parsed("evt", r,
                   [kind |-> "Imu",
                    rotation_x |-> r.vals[1], rotation_y |-> r.vals[2],
                    rotation_z |-> r.vals[3], acceleration_x |-> r.vals[4],
                    acceleration_y |-> r.vals[5], acceleration_z |-> r.vals[6],
                    gravity_x |-> r.vals[7], gravity_y |-> r.vals[8],
                    gravity_z |-> r.vals[9]])
        keyword(kw) ==
            CASE kw.st # "Ok" -> Parsed("evt", Fields(kw.st, kw.index, <<>>, FALSE), NoMsg)
              [] kw.st = "Ok" /\ kw.which = 1 -> parse_status(b, kw.index)
              [] kw.st = "Ok" /\ kw.which = 2 ->
                   lasers(match_fields(b, kw.index, LASER_COUNT))
              [] kw.st = "Ok" /\ kw.which = 3 ->
                   imu(then_end(b, match_fields(b, kw.index, 9)))
              [] kw.st = "Ok" /\ kw.which = 4 -> parse_log(b, kw.index)
    IN keyword(first_keyword(b, 0, EventKeywords, 1))

---------------------------------------------------------------------------
(* Test helpers (protocol/src/test/protocol_tests.rs)                      *)

\* for (i, c) in s.chars().enumerate() { buffer[i] = c; buffer[i + 1] = '\n' }
\* every character lands at its index and the newline ends up after the last
\* one; an empty string leaves the buffer as new_protocol_buffer made it
buffer_from_str(s) ==
    [i \in BufIndex |-> IF i < Len(s) THEN s[i + 1]
                        ELSE IF i = Len(s) /\ Len(s) > 0 THEN CODE_END
                        ELSE new_protocol_buffer[i]]

\* the bytes before the first newline
buffer_to_string(b) ==
    LET upto(ends) ==
            [k \in 1..(IF ends = {} THEN PROTOCOL_BUFFER_SIZE
                       ELSE CHOOSE i \in ends : \A j \in ends : i <= j) |-> b[k - 1]]
    IN upto({i \in BufIndex : b[i] = CODE_END})

---------------------------------------------------------------------------
(* Inputs *)

MaxSeed == 3               \* messages are built from seeds 0..MaxSeed
MaxDimension == 100000000  \* largest mm / ms / mm/s2 value of an in-range message

PowerPool == <<100, -100, 0, 50, -7, 99>>
AnglePool == <<90, 180, 360, -360, 0, 45>>
DimPool == <<1000, 800, 500, 0, -30, MaxDimension, 1, 12345, -MaxDimension, 99>>
CompletionPool == <<0, 100, 20, 70, 60>>
PositionPool == <<-100, 100, -90, -20, 20, 0>>
IndexPool == <<0, 1, 2, 19, 5, 1000>>

Pick(pool, k) == pool[(k % Len(pool)) + 1]

Shapes == {"Straight", "TurnLeft", "TurnRight", "SlopeUp", "SlopeDown"}

SectionData(shape, k) ==
    CASE shape = "Straight" ->
           [width_start |-> Pick(DimPool, k + 1), width_end |-> Pick(DimPool, k + 2),
            length |-> Pick(DimPool, k)]
      [] shape \in {"TurnLeft", "TurnRight"} ->
           [width_start |-> Pick(DimPool, k + 1), radius_start |-> Pick(DimPool, k + 2),
            width_end |-> Pick(DimPool, k + 3), radius_end |-> Pick(DimPool, k + 5),
            angle |-> Pick(AnglePool, k)]
      [] OTHER ->
           [width_start |-> Pick(DimPool, k + 1), width_end |-> Pick(DimPool, k + 2),
            length |-> Pick(DimPool, k), height |-> Pick(DimPool, k + 4)]

Direct(a, b, c, d) ==
    [kind |-> "Direct", back_left |-> a, back_right |-> b, front_left |-> c,
     front_right |-> d]

FixedCommands == {[kind |-> k] : k \in {"MapEnd", "Reset", "Start", "Pause", "Restart"}}

SeedCommands(k) ==
    {[kind |-> "MapStart", count |-> usize(Pick(IndexPool, k))]}
    \cup {[kind |-> "MapSection", index |-> usize(Pick(IndexPool, k)), shape |-> sh,
           data |-> SectionData(sh, k)] : sh \in Shapes}
    \cup {Direct(Pick(PowerPool, k), Pick(PowerPool, k + 1), Pick(PowerPool, k + 2),
                 Pick(PowerPool, k + 4))}

\* commands whose fields are within their documented ranges
Commands == FixedCommands \cup UNION {SeedCommands(k) : k \in 0..MaxSeed}

\* commands with a field beyond nine digits
WideCommands ==
    {[kind |-> "MapStart", count |-> usize(1000000000)],
     Direct(0, I32_MAX, I32_MIN, 1)}

LogMessage(n) == [i \in 0..(MAX_LOG_LINE_SIZE - 1) |-> IF i < n THEN 97 + (i % 26) ELSE 0]

Log(n) == [kind |-> "Log", length |-> n, message |-> LogMessage(n)]

LogLengths == {0, 1, 28, MAX_LOG_LINE_SIZE - 1, MAX_LOG_LINE_SIZE}

Imu(v) ==
    [kind |-> "Imu", rotation_x |-> v[1], rotation_y |-> v[2], rotation_z |-> v[3],
     acceleration_x |-> v[4], acceleration_y |-> v[5], acceleration_z |-> v[6],
     gravity_x |-> v[7], gravity_y |-> v[8], gravity_z |-> v[9]]

FixedEvents ==
    {[kind |-> "Status", state |-> st] : st \in {"InvalidMap", "DeviceError", "Stopped"}}

SeedEvents(k) ==
    {[kind |-> "Status", state |-> "Waiting", target |-> Pick(DimPool, k),
      elapsed |-> Pick(DimPool, k + 3)],
     [kind |-> "Status", state |-> "Racing", section |-> usize(Pick(IndexPool, k)),
      completion_low |-> Pick(CompletionPool, k),
      completion_high |-> Pick(CompletionPool, k + 1),
      positioning_left |-> Pick(PositionPool, k),
      positioning_right |-> Pick(PositionPool, k + 1)],
     [kind |-> "Lasers", data |-> [i \in 1..LASER_COUNT |-> Pick(DimPool, k + i)]],
     Imu([i \in 1..9 |-> IF i <= 3 THEN Pick(AnglePool, k + i) ELSE Pick(DimPool, k + i)])}

\* events whose fields are within their documented ranges
Events ==
    FixedEvents \cup UNION {SeedEvents(k) : k \in 0..MaxSeed} \cup {Log(n) : n \in LogLengths}

\* events with a field beyond nine digits, and the longest frame whose
\* fields have nine digits
WideEvents ==
    {[kind |-> "Status", state |-> "Waiting", target |-> 1000000000, elapsed |-> 0],
     [kind |-> "Lasers", data |-> [i \in 1..LASER_COUNT |-> I32_MIN]],
     [kind |-> "Lasers", data |-> [i \in 1..LASER_COUNT |-> -999999999]]}

\* parts[lo], ..., parts[hi] with a separator between each two
RECURSIVE JoinRange(_, _, _)
JoinRange(parts, lo, hi) ==
    IF lo > hi THEN <<>>
    ELSE IF lo = hi THEN parts[lo]
    ELSE LET mid == (lo + hi) \div 2
         IN JoinRange(parts, lo, mid) \o <<CODE_SEPARATOR>> \o JoinRange(parts, mid + 1, hi)

Join(parts) == JoinRange(parts, 1, Len(parts))

Nums(vals) == [i \in 1..Len(vals) |-> Canon(vals[i])]

Line(of, canonical, text) == [of |-> of, canonical |-> canonical, text |-> text]

\* COMMANDS of protocol_tests.rs
TestCommandLines ==
    <<Line("cmd", TRUE, Join(<<MAP_START>> \o Nums(<<5>>))),
      Line("cmd", TRUE, Join(<<MAP_SECTION, Canon(0), STRAIGHT>> \o Nums(<<1000, 800, 800>>))),
      Line("cmd", TRUE, Join(<<MAP_SECTION, Canon(1), LEFT>> \o Nums(<<90, 800, 800, 500, 500>>))),
      Line("cmd", TRUE, Join(<<MAP_SECTION, Canon(2), RIGHT>> \o Nums(<<90, 800, 800, 500, 500>>))),
      Line("cmd", TRUE, Join(<<MAP_SECTION, Canon(3), UP>> \o Nums(<<1000, 30, 800, 800>>))),
      Line("cmd", TRUE, Join(<<MAP_SECTION, Canon(4), DOWN>> \o Nums(<<1000, 30, 800, 800>>))),
      Line("cmd", TRUE, MAP_END),
      Line("cmd", TRUE, RESET),
      Line("cmd", TRUE, PAUSE),
      Line("cmd", TRUE, RESTART),
      Line("cmd", TRUE, Join(<<DIRECT>> \o Nums(<<100, -100, 0, 50>>)))>>

\* EVENTS of protocol_tests.rs
TestEventLines ==
    <<Line("evt", TRUE, Join(<<STATUS, INVALID_MAP>>)),
      Line("evt", TRUE, Join(<<STATUS, DEVICE_ERROR>>)),
      Line("evt", TRUE, Join(<<STATUS, STOPPED>>)),
      Line("evt", TRUE, Join(<<STATUS, WAITING>> \o Nums(<<1000, 300>>))),
      Line("evt", TRUE, Join(<<STATUS, RACING>> \o Nums(<<2, 0, 100, -100, 100>>))),
      Line("evt", TRUE, Join(<<STATUS, RACING>> \o Nums(<<2, 20, 70, -90, -20>>))),
      Line("evt", TRUE, Join(<<STATUS, RACING>> \o Nums(<<2, 60, 100, 20, 100>>))),
      Line("evt", TRUE, Join(<<LASERS>> \o Nums([i \in 1..LASER_COUNT |-> 100 + i]))),
      Line("evt", TRUE, Join(<<IMU>> \o Nums(<<0, 0, 45, 0, 0, 0, 0, 0, -1>>))),
      Line("evt", TRUE, Join(<<IMU>> \o Nums(<<2, -5, -45, 12, 23, 4, 1, -1, -5>>))),
      Line("evt", TRUE, Join(<<LOG, Slice(LogMessage(28), 0, 28)>>))>>

\* further lines in canonical form
CanonicalLines ==
    <<Line("cmd", TRUE, START),
      Line("cmd", TRUE, Join(<<MAP_START>> \o Nums(<<-1>>))),
      Line("cmd", TRUE, Join(<<MAP_START>> \o Nums(<<1000000000>>))),
      Line("cmd", TRUE, Join(<<DIRECT>> \o Nums(<<-100, 0, 7, I32_MAX>>))),
      Line("evt", TRUE, Join(<<LOG, <<>> >>)),
      Line("evt", TRUE, Join(<<LOG, Slice(LogMessage(MAX_LOG_LINE_SIZE - 1), 0,
                                          MAX_LOG_LINE_SIZE - 1)>>)),
      Line("evt", TRUE, Join(<<LOG, Slice(LogMessage(MAX_LOG_LINE_SIZE), 0,
                                          MAX_LOG_LINE_SIZE)>>)),
      Line("evt", TRUE, Join(<<STATUS, WAITING>> \o Nums(<<I32_MIN, 0>>)))>>

\* lines with integers in non-canonical form
SlackLines ==
    <<Line("cmd", FALSE, Join(<<MAP_START, Zeros(2) \o Canon(7)>>)),
      Line("cmd", FALSE, Join(<<DIRECT, <<CODE_MINUS>> \o Canon(0), Zeros(2), Canon(1),
                                Zeros(1) \o Canon(50)>>)),
      Line("evt", FALSE, Join(<<STATUS, WAITING, Zeros(3) \o Canon(10),
                                <<CODE_MINUS>> \o Zeros(1) \o Canon(3)>>))>>

\* malformed lines
BadLines ==
    <<Line("cmd", FALSE, <<>>),
      Line("cmd", FALSE, <<77, 65, 80, 45, 83, 84, 79, 80>>),
      Line("cmd", FALSE, <<82, 69, 83, 69, 88>>),
      Line("cmd", FALSE, START \o <<88>>),
      Line("cmd", FALSE, Join(<<MAP_END>> \o Nums(<<5>>))),
      Line("cmd", FALSE, Join(<<MAP_START, <<>> >>)),
      Line("cmd", FALSE, Join(<<MAP_START, <<CODE_MINUS>> >>)),
      Line("cmd", FALSE, Join(<<MAP_START, Canon(999999999) \o Canon(99)>>)),
      Line("cmd", FALSE, Join(<<MAP_SECTION, Canon(1), <<83, 84, 82, 65, 73, 71, 72, 88>>>>
                              \o Nums(<<1, 2, 3>>))),
      Line("cmd", FALSE, Join(<<MAP_SECTION, Canon(1), LEFT>> \o Nums(<<90, 800>>))),
      Line("cmd", FALSE, Join(<<MAP_SECTION, Canon(1)>>)),
      Line("cmd", FALSE, Join(<<DIRECT>> \o Nums(<<1, 2, 3>>))),
      Line("cmd", FALSE, Join(<<DIRECT>> \o Nums(<<1, 2, 3, 4, 5>>))),
      Line("evt", FALSE, Join(<<STATUS, <<82, 65, 67, 73, 78, 88>> >>)),
      Line("evt", FALSE, Join(<<STATUS, WAITING>> \o Nums(<<1>>))),
      Line("evt", FALSE, Join(<<STATUS, STOPPED>> \o Nums(<<1>>))),
      Line("evt", FALSE, Join(<<LASERS>> \o Nums([i \in 1..(LASER_COUNT + 1) |-> i]))),
      Line("evt", FALSE, Join(<<LASERS>> \o Nums([i \in 1..(LASER_COUNT - 1) |-> i]))),
      Line("evt", FALSE, Join(<<LASERS>> \o Nums([i \in 1..LASER_COUNT |-> i])) \o <<88>>),
      Line("evt", FALSE, Join(<<IMU>> \o Nums([i \in 1..10 |-> i]))),
      Line("evt", FALSE, Join(<<LOG, Slice(LogMessage(MAX_LOG_LINE_SIZE), 0,
                                           MAX_LOG_LINE_SIZE) \o <<97>> >>))>>

Lines == TestCommandLines \o TestEventLines \o CanonicalLines \o SlackLines \o BadLines

\* the frames a byte of which is damaged in transit
DamageTargets ==
    FixedCommands \cup SeedCommands(0) \cup FixedEvents \cup SeedEvents(0)
    \cup {Log(1), Log(28)}

\* frames that stay in a buffer another message is then written into: the
\* longest frame of nine-digit fields and two log lines
StaleTargets ==
    {[kind |-> "Lasers", data |-> [i \in 1..LASER_COUNT |-> -999999999]],
     Log(MAX_LOG_LINE_SIZE - 1), Log(28)}

DamageBytes == {0, 88, CODE_END}
OverrunBytes == {0, 49}

---------------------------------------------------------------------------
(* The section model (map.rs).  A LinearDimension (f32 metres) is held in  *)
(* fixed point as a whole number of micrometres, which is finer than the   *)
(* spacing of f32 values from 8 m outwards.  An Angle (f32 radians) is     *)
(* held exactly as [k, q]: k times 3.1415/180 radians, the unit            *)
(* ang_from_proto converts degrees with, plus q times pi/2 radians, the    *)
(* unit of FRAC_PI_2 and of the 2*pi steps of normalize_angle.             *)

V3(x, y, z) == [x |-> x, y |-> y, z |-> z]
V3_zero == V3(0, 0, 0)
V3_unit_y(s) == V3(0, s, 0)    \* V3::unit_y() * s
V3_unit_z(s) == V3(0, 0, s)    \* V3::unit_z() * s
V3_add(a, b) == V3(a.x + b.x, a.y + b.y, a.z + b.z)
V3_neg(a) == V3(-a.x, -a.y, -a.z)
V3_half(a) == V3(a.x \div 2, a.y \div 2, a.z \div 2)

Angle(k, q) == [k |-> k, q |-> q]
Angle_zero == Angle(0, 0)
Angle_add(a, b) == Angle(a.k + b.k, a.q + b.q)
Angle_neg(a) == Angle(-a.k, -a.q)
\* 180 * 10^4 times the angle in radians, to the nearest whole number:
\* 3.1415 * 10^4 for each unit of k and 90 * pi * 10^4 for each unit of q
Angle_scaled(a) == a.k * 31415 + a.q * 2827433
\* a > 0.0
Angle_positive(a) == Angle_scaled(a) > 0

\* dim as LinearDimension / 1000.0: millimetres to metres
dim_from_proto(dim) == dim * 1000
\* a turning angle that swings the other way
ang_from_proto_same_sign(ang) == Angle(ang, 0)
\* -(ang as Angle) * 3.1415 / 180.0
ang_from_proto(ang) == Angle(-ang, 0)

\* while angle.to_degrees() > PI { angle -= PI * 2.0 }: the angle times
\* 180/pi is compared with pi, that is 180 * angle with pi^2 = 9.8696
RECURSIVE normalize_down(_)
normalize_down(a) ==
    IF Angle_scaled(a) > 98696 THEN normalize_down(Angle(a.k, a.q - 4)) ELSE a

\* while angle < -PI { angle += PI * 2.0 }: 180 * angle against -180 * pi
RECURSIVE normalize_up(_)
normalize_up(a) ==
    IF Angle_scaled(a) < -5654867 THEN normalize_up(Angle(a.k, a.q + 4)) ELSE a

\* a normalization that lacks the second loop
normalize_angle_down_only(angle) == normalize_down(angle)

normalize_angle(angle) == normalize_up(normalize_down(angle))

\* a rotation about y in the other sense
rotation_y_reversed(angle, v) ==
    LET short(c) == ((c \div 1000) * 46327) \div 1000000
        back(u, m) == V3(u.x + m * short(u.z), u.y, u.z - m * short(u.x))
        quarters(n) == CASE n % 4 = 0 -> v
                         [] n % 4 = 1 -> V3(-v.z, v.y, v.x)
                         [] n % 4 = 2 -> V3(-v.x, v.y, -v.z)
                         [] OTHER -> V3(v.z, v.y, -v.x)
        turned(m) == back(quarters(angle.q + m), m)
    IN turned(angle.k \div 90)

\* Q::rotation_y(angle) * v for an angle of whole quarter turns (k a
\* multiple of 90): the q + k / 90 quarter turns about y are exact, each
\* taking (x, z) to (z, -x), and the k / 90 * (pi - 3.1415) / 2 radians by
\* which 3.1415 falls short of pi turn the vector back by 46.327
\* micrometres for each metre and quarter turn of k
rotation_y(angle, v) ==
    LET short(c) == ((c \div 1000) * 46327) \div 1000000
        back(u, m) == V3(u.x - m * short(u.z), u.y, u.z + m * short(u.x))
        quarters(n) == CASE n % 4 = 0 -> v
                         [] n % 4 = 1 -> V3(v.z, v.y, -v.x)
                         [] n % 4 = 2 -> V3(-v.x, v.y, -v.z)
                         [] OTHER -> V3(-v.z, v.y, v.x)
        turned(m) == back(quarters(angle.q + m), m)
    IN turned(angle.k \div 90)

\* MapSection::new
MapSection_new(shape, width_start, width_end) ==
    [shape |-> shape, width_start |-> width_start, width_end |-> width_end,
     start |-> V3_zero, end |-> V3_zero, center |-> V3_zero,
     heading_start |-> Angle_zero, heading_end |-> Angle_zero]

\* a validity check that lets a zero width pass
MapSection_is_valid_zero_width(s) ==
    IF s.width_start < 0 \/ s.width_end < 0 THEN FALSE
    ELSE CASE s.shape.kind = "Straigth" -> ~(s.shape.length <= 0)
           [] s.shape.kind = "Slope" -> ~(s.shape.length <= 0) /\ ~(s.shape.height = 0)
           [] OTHER -> ~(s.shape.radius_start <= 0) /\ ~(s.shape.radius_end <= 0)

MapSection_is_valid(s) ==
    IF s.width_start <= 0 \/ s.width_end <= 0 THEN FALSE
    ELSE CASE s.shape.kind = "Straigth" -> ~(s.shape.length <= 0)
           [] s.shape.kind = "Slope" -> ~(s.shape.length <= 0) /\ ~(s.shape.height = 0)
           [] OTHER -> ~(s.shape.radius_start <= 0) /\ ~(s.shape.radius_end <= 0)

\* from_protocol_data of a wire section of the given shape
MapSection_from_protocol_data(shape, s) ==
    CASE shape = "Straight" ->
           MapSection_new([kind |-> "Straigth", length |-> dim_from_proto(s.length)],
                          dim_from_proto(s.width_start), dim_from_proto(s.width_end))
      [] shape = "TurnRight" ->
           MapSection_new([kind |-> "Turn",
                           radius_start |-> dim_from_proto(s.radius_start),
                           radius_end |-> dim_from_proto(s.radius_end),
                           turning_angle |-> ang_from_proto(s.angle)],
                          dim_from_proto(s.width_start), dim_from_proto(s.width_end))
      [] shape = "TurnLeft" ->
           MapSection_new([kind |-> "Turn",
                           radius_start |-> dim_from_proto(s.radius_start),
                           radius_end |-> dim_from_proto(s.radius_end),
                           turning_angle |-> Angle_neg(ang_from_proto(s.angle))],
                          dim_from_proto(s.width_start), dim_from_proto(s.width_end))
      [] shape = "SlopeUp" ->
           MapSection_new([kind |-> "Slope", length |-> dim_from_proto(s.length),
                           height |-> dim_from_proto(s.height)],
                          dim_from_proto(s.width_start), dim_from_proto(s.width_end))
      [] OTHER ->
           MapSection_new([kind |-> "Slope", length |-> dim_from_proto(s.length),
                           height |-> -dim_from_proto(s.height)],
                          dim_from_proto(s.width_start), dim_from_proto(s.width_end))

\* compute_end_geometry: <<end, heading_end, center>>
compute_end_geometry(self) ==
    LET straigth(delta) ==
            <<V3_add(self.start, delta), self.heading_start,
              V3_add(self.start, V3_half(delta))>>
        arc(s, center, dir_to_center) ==
            <<V3_add(center, rotation_y(s.turning_angle, V3_neg(dir_to_center))),
              normalize_angle(Angle_add(self.heading_start, s.turning_angle)),
              center>>
        turn(s, side) ==
            arc(s,
                V3_add(self.start,
                       rotation_y(Angle(self.heading_start.k, self.heading_start.q + side),
                                  V3_unit_z(s.radius_start))),
                rotation_y(Angle(self.heading_start.k, self.heading_start.q + side),
                           V3_unit_z(s.radius_end)))
    IN CASE self.shape.kind = "Straigth" ->
              straigth(rotation_y(self.heading_start, V3_unit_z(self.shape.length)))
         [] self.shape.kind = "Turn" ->
              turn(self.shape, IF Angle_positive(self.shape.turning_angle) THEN 1 ELSE -1)
         [] OTHER ->
              straigth(V3_add(rotation_y(self.heading_start,
                                         V3_unit_z(self.shape.length)),
                              V3_unit_y(self.shape.height)))

---------------------------------------------------------------------------
(* The map (map.rs): MAP_SECTIONS_MAX_COUNT slots and the number of them   *)
(* in use.                                                                 *)

MAP_SECTIONS_MAX_COUNT == 20
Slots == 0..(MAP_SECTIONS_MAX_COUNT - 1)

EMPTY_SECTION ==
    [shape |-> [kind |-> "Straigth", length |-> 0], width_start |-> 0, width_end |-> 0,
     start |-> V3(0, 0, 0), end |-> V3(0, 0, 0), center |-> V3(0, 0, 0),
     heading_start |-> Angle_zero, heading_end |-> Angle_zero]

\* Map::new
Map_new == [length |-> 0, sections |-> [i \in Slots |-> EMPTY_SECTION]]

\* Map::reset
Map_reset(self) == [length |-> 0, sections |-> [i \in Slots |-> EMPTY_SECTION]]

\* a configure_section that stores the shape and the widths of the section
\* and zero geometry
Map_configure_section_fresh(self, index, section) ==
    [self EXCEPT !.sections[index] =
                     MapSection_new(section.shape, section.width_start, section.width_end)]

\* Map::configure_section for an index inside the array: self.sections[index] = *section
Map_configure_section(self, index, section) ==
    [self EXCEPT !.sections[index] = section]

\* Map::is_valid
Map_is_valid(self) ==
    IF self.length = 0 THEN FALSE
    ELSE \A i \in 0..(self.length - 1) : MapSection_is_valid(self.sections[i])

\* a count of the sections in use that stops at the first invalid slot
RECURSIVE count_sections_to_gap(_, _, _)
count_sections_to_gap(self, i, length) ==
    IF i >= MAP_SECTIONS_MAX_COUNT \/ ~MapSection_is_valid(self.sections[i]) THEN length
    ELSE count_sections_to_gap(self, i + 1, i + 1)

\* for i in 0..MAP_SECTIONS_MAX_COUNT { if self.sections[i].is_valid() { self.length = i + 1 } }
RECURSIVE count_sections(_, _, _)
count_sections(self, i, length) ==
    IF i >= MAP_SECTIONS_MAX_COUNT THEN length
    ELSE count_sections(self, i + 1,
                        IF MapSection_is_valid(self.sections[i]) THEN i + 1 ELSE length)

\* a chaining pass that starts every section at the origin
RECURSIVE chain_sections_unlinked(_, _, _, _)
chain_sections_unlinked(self, i, start, heading_start) ==
    LET placed(s) == [s EXCEPT !.start = start, !.heading_start = heading_start]
        computed(s, g) == [s EXCEPT !.end = g[1], !.heading_end = g[2], !.center = g[3]]
        done(s) == computed(s, compute_end_geometry(s))
        next(s) == chain_sections_unlinked([self EXCEPT !.sections[i] = s], i + 1,
                                           start, heading_start)
    IN IF i >= self.length THEN self
       ELSE next(done(placed(self.sections[i])))

\* for i in 0..self.length { ... }: the sections in use are given their
\* geometry, each one starting where the one before it ends
RECURSIVE chain_sections(_, _, _, _)
chain_sections(self, i, start, heading_start) ==
    LET placed(s) == [s EXCEPT !.start = start, !.heading_start = heading_start]
        computed(s, g) == [s EXCEPT !.end = g[1], !.heading_end = g[2], !.center = g[3]]
        done(s) == computed(s, compute_end_geometry(s))
        next(s) == chain_sections([self EXCEPT !.sections[i] = s], i + 1,
                                  s.end, s.heading_end)
    IN IF i >= self.length THEN self
       ELSE next(done(placed(self.sections[i])))

\* a completion that chains the geometry whether or not the map is valid
Map_complete_configuration_unguarded(self) ==
    LET counted(m) == chain_sections(m, 0, V3_zero, Angle_zero)
    IN counted([self EXCEPT !.length = count_sections(self, 0, 0)])

\* a completion that clears the geometry of a map it finds invalid
Map_complete_configuration_clearing(self) ==
    LET cleared(s) == [s EXCEPT !.start = V3_zero, !.end = V3_zero, !.center = V3_zero,
                                !.heading_start = Angle_zero, !.heading_end = Angle_zero]
        counted(m) == IF Map_is_valid(m) THEN chain_sections(m, 0, V3_zero, Angle_zero)
                      ELSE [m EXCEPT !.sections = [i \in Slots |-> cleared(m.sections[i])]]
    IN counted([self EXCEPT !.length = count_sections(self, 0, 0)])

\* a completion that starts the chain where section 0 ended before
Map_complete_configuration_resuming(self) ==
    LET counted(m) == IF Map_is_valid(m)
                      THEN chain_sections(m, 0, m.sections[0].end,
                                          m.sections[0].heading_end)
                      ELSE m
    IN counted([self EXCEPT !.length = count_sections(self, 0, 0)])

\* Map::complete_configuration
Map_complete_configuration(self) ==
    LET counted(m) == IF Map_is_valid(m) THEN chain_sections(m, 0, V3_zero, Angle_zero)
                      ELSE m
    IN counted([self EXCEPT !.length = count_sections(self, 0, 0)])

\* Map::fix_index
fix_index(self, index) ==
    IF self.length > 0 THEN index % self.length ELSE index

\* Map::next_index
next_index(self, index) == fix_index(self, index + 1)

\* Map::previous_index: self.length - 1 of an empty map is below zero,
\* which panics in a build with overflow checks and is usize::MAX (max)
\* in a build without them
previous_index(self, index) ==
    IF index > 0 THEN [st |-> "Ok", max |-> FALSE, v |-> index - 1]
    ELSE IF self.length > 0 THEN [st |-> "Ok", max |-> FALSE, v |-> self.length - 1]
    ELSE IF overflow_checks THEN [st |-> "Panic", max |-> FALSE, v |-> 0]
    ELSE [st |-> "Ok", max |-> TRUE, v |-> 0]

\* impl Index<usize> for Map: &self.sections[self.fix_index(i)], for an
\* index that fix_index leaves inside the array
Map_index(self, i) == self.sections[fix_index(self, i)]

---------------------------------------------------------------------------
(* Segmentation (map/src/lib.rs).  A segment is held by its two wall       *)
(* lengths, its two widths and its shading flag; its center, heading and   *)
(* pitch, which take the sine and cosine of angles that are no quarter     *)
(* turns, are not computed.  Sines and square roots are taken to four      *)
(* decimal places.                                                         *)

\* MapSectionSegment::new
MapSectionSegment_new(length_left, length_right, width_start, width_end, is_lighter) ==
    [length_left |-> length_left, length_right |-> length_right,
     width_start |-> width_start, width_end |-> width_end, is_lighter |-> is_lighter]

\* lerp(v1, v2, interval) for the interval num / den
lerp(v1, v2, num, den) == v1 + ((v2 - v1) * num) \div den

\* (a.powi(2) + b.powi(2)).sqrt(), with a and b taken in millimetres
hypot(a, b) ==
    LET root(s, top) == CHOOSE r \in 0..top : r * r <= s /\ s < (r + 1) * (r + 1)
        abs(c) == IF c < 0 THEN -c ELSE c
        mm(c) == abs(c) \div 1000
    IN root(mm(a) * mm(a) + mm(b) * mm(b), mm(a) + mm(b)) * 1000

\* a count of steps that is left even when the quotient is even
turn_steps_unrounded(turning_angle) ==
    LET abs(c) == IF c < 0 THEN -c ELSE c
    IN abs(Angle_scaled(turning_angle)) \div 471239

\* a count of steps that rounds the quotient up
turn_steps_ceil(turning_angle) ==
    LET abs(c) == IF c < 0 THEN -c ELSE c
        odd(steps) == IF steps % 2 = 0 THEN steps + 1 ELSE steps
    IN odd((abs(Angle_scaled(turning_angle)) + 471238) \div 471239)

\* let steps = (s.turning_angle.abs().to_degrees() / 15.0) as i32;
\* let steps = if steps % 2 == 0 { steps + 1 } else { steps };
\* the cast drops the fraction; 15 degrees are 15 * pi * 10^4 = 471239 of
\* the units of Angle_scaled
turn_steps(turning_angle) ==
    LET abs(c) == IF c < 0 THEN -c ELSE c
        odd(steps) == IF steps % 2 = 0 THEN steps + 1 ELSE steps
    IN odd(abs(Angle_scaled(turning_angle)) \div 471239)

\* (s.turning_angle * half_interval).abs().sin(), in units of 10^-4: the
\* angle is |k| * 3.1415 / 180 / (2 * steps) radians, at most 15 degrees,
\* and its sine is x - x^3 / 6 to that precision
half_interval_sin(turning_angle, steps) ==
    LET abs(c) == IF c < 0 THEN -c ELSE c
        cube(x, x2) == (x * x2) \div 60000
        sine(x) == x - cube(x, (x * x) \div 10000)
    IN sine(((abs(turning_angle.k) * 17453) \div (2 * steps)) \div 100)

\* (radius -/+ width / 2.0) * angle_half_interval.sin() * 2.0
chord(reach, sin) == (((reach \div 100) * sin) \div 100) * 2

\* the segments of a turn from the i-th on; is_lighter is toggled after
\* each push
RECURSIVE turn_segments(_, _, _, _, _, _)
turn_segments(section, left, right, steps, i, is_lighter) ==
    IF i >= steps THEN <<>>
    ELSE <<MapSectionSegment_new(lerp(left[1], left[2], 2 * i + 1, 2 * steps),
                                 lerp(right[1], right[2], 2 * i + 1, 2 * steps),
                                 lerp(section.width_start, section.width_end,
                                      2 * i + 1, 2 * steps),
                                 lerp(section.width_start, section.width_end,
                                      2 * i + 1, 2 * steps),
                                 is_lighter)>>
         \o turn_segments(section, left, right, steps, i + 1, ~is_lighter)

\* the match of map_segmentation: the segments of one section
section_segments(section) ==
    LET s == section.shape
        sloped(length) ==
            <<MapSectionSegment_new(length, length, section.width_start,
                                    section.width_end, TRUE)>>
        walls(inner, outer, steps) ==
            IF Angle_positive(s.turning_angle)
            THEN turn_segments(section, inner, outer, steps, 0, FALSE)
            ELSE turn_segments(section, outer, inner, steps, 0, FALSE)
        chords(steps, sin) ==
            walls(<<chord(s.radius_start - section.width_start \div 2, sin),
                    chord(s.radius_end - section.width_end \div 2, sin)>>,
                  <<chord(s.radius_start + section.width_start \div 2, sin),
                    chord(s.radius_end + section.width_end \div 2, sin)>>,
                  steps)
        turn(steps) == chords(steps, half_interval_sin(s.turning_angle, steps))
    IN CASE s.kind = "Straigth" -> sloped(s.length)
         [] s.kind = "Slope" -> sloped(hypot(s.length, s.height))
         [] OTHER -> turn(turn_steps(s.turning_angle))

\* map_segmentation, from section i on: for i in 0..map.length { &map[i] ... }
RECURSIVE map_segmentation_from(_, _)
map_segmentation_from(m, i) ==
    IF i >= m.length THEN <<>>
    ELSE section_segments(Map_index(m, i)) \o map_segmentation_from(m, i + 1)

map_segmentation(m) == map_segmentation_from(m, 0)

---------------------------------------------------------------------------
(* The control panel (display/src/ui.rs) and the loop of the simulator     *)
(* that reads it (simulator/src/main.rs).  Of UiState the model keeps the  *)
(* activity, the power of the manual joystick and the follow flag of the   *)
(* camera; the log, the window size and the positions of the camera take   *)
(* no part in what the buttons do.  The two axes of the joystick are held  *)
(* as whole numbers, -1, 0 and 1 for -1.0, 0.0 and 1.0.  A pass of gui()    *)
(* is given, for every button it draws, the number of clicks the button    *)
(* reports, and it records in moves every assignment it makes to the       *)
(* activity, as the pair of the activity before and the activity after.    *)

\* DirectPower::none and DirectPower::from_front_side
DirectPower_none == [some |-> FALSE, front |-> 0, side |-> 0]
DirectPower_from_front_side(front, side) == [some |-> TRUE, front |-> front, side |-> side]

\* DirectPower::power
DirectPower_power(self) ==
    <<self.front + self.side, self.front - self.side,
      self.front + self.side, self.front - self.side>>

\* UiState::new
UiState_new ==
    [activity |-> "Idle", power |-> DirectPower_none, follow |-> FALSE, moves |-> {}]

\* state.activity = activity
set_activity(state, activity) ==
    [state EXCEPT !.activity = activity,
                  !.moves = @ \cup {<<state.activity, activity>>}]

\* the top left button of the camera panel, FOLLOW or OK, clicked n times
RECURSIVE follow_button(_, _)
follow_button(state, n) ==
    IF n = 0 THEN state
    ELSE follow_button(IF state.follow THEN set_activity(state, "Idle")
                       ELSE [state EXCEPT !.follow = TRUE], n - 1)

\* the top right button of the camera panel, FIXED or OK, clicked n times
RECURSIVE fixed_button(_, _)
fixed_button(state, n) ==
    IF n = 0 THEN state
    ELSE fixed_button(IF ~state.follow THEN set_activity(state, "Idle")
                      ELSE [state EXCEPT !.follow = FALSE], n - 1)

\* the top left button, COMMANDS or CANCEL, clicked n times
RECURSIVE commands_button(_, _)
commands_button(state, n) ==
    IF n = 0 THEN state
    ELSE commands_button(IF state.activity = "Commands" THEN set_activity(state, "Idle")
                         ELSE set_activity(state, "Commands"), n - 1)

\* the top center button, CAMERA, clicked n times
RECURSIVE camera_button(_, _)
camera_button(state, n) ==
    IF n = 0 THEN state ELSE camera_button(set_activity(state, "Camera"), n - 1)

\* a MANUAL or CANCEL button that leaves the power as it is
RECURSIVE manual_button_keeping(_, _)
manual_button_keeping(state, n) ==
    IF n = 0 THEN state
    ELSE manual_button_keeping(IF state.activity = "Manual" THEN set_activity(state, "Idle")
                               ELSE set_activity(state, "Manual"), n - 1)

\* the top right button, MANUAL or CANCEL, clicked n times
RECURSIVE manual_button(_, _)
manual_button(state, n) ==
    LET cleared(s) == [s EXCEPT !.power = DirectPower_none]
        toggled(s) == IF s.activity = "Manual" THEN set_activity(s, "Idle")
                      ELSE set_activity(s, "Manual")
    IN IF n = 0 THEN state ELSE manual_button(toggled(cleared(state)), n - 1)

\* the buttons at the top: those of the camera panel while the activity is
\* Camera (its RESET button changes positions only), and otherwise each
\* button that the activity it meets lets it be drawn
top_buttons(state, input) ==
    LET left(s) == IF s.activity \in {"Commands", "Idle"}
                   THEN commands_button(s, input.left) ELSE s
        center(s) == IF s.activity = "Idle" THEN camera_button(s, input.center) ELSE s
        right(s) == IF s.activity \in {"Manual", "Idle"}
                    THEN manual_button(s, input.right) ELSE s
    IN IF state.activity = "Camera"
       THEN fixed_button(follow_button(state, input.left), input.right)
       ELSE right(center(left(state)))

\* match state.activity { ... }: a command button ends Commands, and the
\* joystick of Manual is given a power if it has none and takes the
\* position it is moved to
panel(state, input) ==
    LET armed(s) == IF s.power.some THEN s
                    ELSE [s EXCEPT !.power = DirectPower_from_front_side(0, 0)]
        moved(s) == IF input.pad.some
                    THEN [s EXCEPT !.power =
                             DirectPower_from_front_side(input.pad.front, input.pad.side)]
                    ELSE s
    IN CASE state.activity = "Commands" ->
              (IF input.command THEN set_activity(state, "Idle") ELSE state)
         [] state.activity = "Manual" -> moved(armed(state))
         [] OTHER -> state

\* gui(ui, ids, state)
gui(state, input) == panel(top_buttons(state, input), input)

---------------------------------------------------------------------------
(* Inputs of the section model and of the map *)

MaxCalls == 3   \* operations made on one Map
MaxSlot == 2    \* slots 0..MaxSlot are configured one at a time
MaxIndex == 8   \* indexes 0..MaxIndex are asked about

WireDims == {-30, 0, 500, 800}
WireAngles == {-90, -20, 0, 1, 14, 15, 20, 30, 44, 45, 90, 180, 360}

\* angles handed to normalize_angle: a turning angle converted from the
\* wire, with up to MaxQuarterTurns quarter turns to either side, which
\* makes pi and -pi themselves and angles several turns away
MaxQuarterTurns == 6
AngleInputs ==
    {Angle_add(ang_from_proto(g), Angle(0, q)) :
        g \in WireAngles, q \in (-MaxQuarterTurns)..MaxQuarterTurns}

\* headings a section starts at: ahead, to either side, and close to the
\* back on either side
HeadingStarts ==
    {Angle_zero, Angle(-90, 0), Angle(90, 0), Angle(-180, 0), Angle(180, 0)}

\* wire sections of every shape, with fields that are positive, zero and
\* negative
WireSections ==
    {[shape |-> "Straight",
      data |-> [length |-> l, width_start |-> a, width_end |-> b]] :
        l \in WireDims, a \in WireDims, b \in WireDims}
    \cup {[shape |-> sh,
           data |-> [angle |-> g, width_start |-> a, width_end |-> b,
                     radius_start |-> r, radius_end |-> q]] :
             sh \in {"TurnLeft", "TurnRight"}, g \in WireAngles, a \in WireDims,
             b \in {500, 0}, r \in WireDims, q \in WireDims}
    \cup {[shape |-> sh,
           data |-> [length |-> l, height |-> h, width_start |-> a, width_end |-> b]] :
             sh \in {"SlopeUp", "SlopeDown"}, l \in WireDims, h \in WireDims,
             a \in {800, -30}, b \in WireDims}

\* SECTIONS of map_tests.rs
SECTIONS ==
    <<Join(<<MAP_SECTION, Canon(0), STRAIGHT>> \o Nums(<<1000, 800, 800>>)),
      Join(<<MAP_SECTION, Canon(1), LEFT>> \o Nums(<<180, 800, 800, 500, 500>>)),
      Join(<<MAP_SECTION, Canon(2), RIGHT>> \o Nums(<<90, 800, 800, 500, 500>>)),
      Join(<<MAP_SECTION, Canon(3), LEFT>> \o Nums(<<180, 800, 800, 500, 500>>)),
      Join(<<MAP_SECTION, Canon(4), UP>> \o Nums(<<500, 300, 800, 800>>)),
      Join(<<MAP_SECTION, Canon(5), DOWN>> \o Nums(<<500, 300, 800, 800>>)),
      Join(<<MAP_SECTION, Canon(6), LEFT>> \o Nums(<<90, 800, 800, 500, 500>>))>>

\* new_map of map_tests.rs, from the n-th line on: the line is parsed and
\* the section it holds is converted and stored at its index
RECURSIVE new_map_sections(_, _, _)
new_map_sections(m, sections, n) ==
    LET stored(cmd) ==
            IF cmd.tag = "Ok" /\ cmd.val.kind = "MapSection"
            THEN Map_configure_section(m, cmd.val.index.lo,
                                       MapSection_from_protocol_data(cmd.val.shape,
                                                                     cmd.val.data))
            ELSE m
    IN IF n > Len(sections) THEN m
       ELSE new_map_sections(stored(BotCommand_parse(buffer_from_str(sections[n]))),
                             sections, n + 1)

new_map(sections) ==
    Map_complete_configuration(new_map_sections(Map_reset(Map_new), sections, 1))

\* the sections a caller configures one at a time: a straight, a left
\* turn, a descent, a straight of no length, and a right turn whose radius
\* is less than half its width
TrackSections ==
    {MapSection_from_protocol_data(w.shape, w.data) :
        w \in {[shape |-> "Straight",
                data |-> [length |-> 1000, width_start |-> 800, width_end |-> 800]],
               [shape |-> "TurnLeft",
                data |-> [angle |-> 90, width_start |-> 800, width_end |-> 800,
                          radius_start |-> 500, radius_end |-> 500]],
               [shape |-> "SlopeDown",
                data |-> [length |-> 500, height |-> 300, width_start |-> 800,
                          width_end |-> 800]],
               [shape |-> "Straight",
                data |-> [length |-> 0, width_start |-> 800, width_end |-> 800]],
               [shape |-> "TurnRight",
                data |-> [angle |-> 90, width_start |-> 800, width_end |-> 800,
                          radius_start |-> 300, radius_end |-> 300]]}}

NoSection == [kind |-> "None"]
NoQuery == [kind |-> "None"]
MapOp(op, index, section, panic) ==
    [op |-> op, index |-> index, section |-> section, panic |-> panic]
NoOp == MapOp("new", usize(0), EMPTY_SECTION, FALSE)

\* the state after Map::new()
MapIdle ==
    /\ msec = NoSection
    /\ map = Map_new
    /\ mprev = Map_new
    /\ mop = NoOp
    /\ mq = NoQuery
    /\ calls = 0

\* the state after UiState::new(), before the first frame
UiIdle ==
    /\ ui_state = UiState_new
    /\ motor_power = <<0, 0, 0, 0>>

---------------------------------------------------------------------------
(* The codec: messages are written into fresh buffers, lines are placed    *)
(* in buffers, frames are damaged on the serial line, buffers are parsed.  *)

NoWrite == [tag |-> "None", index |-> 0, oob |-> FALSE]
NoRes == [of |-> "none", tag |-> "None", index |-> 0, val |-> NoMsg]

CodecInit ==
    /\ buf = new_protocol_buffer
    /\ origin = "new"
    /\ sent = NoMsg
    /\ wres = NoWrite
    /\ line = 0
    /\ res = NoRes

Init ==
    /\ overflow_checks \in BOOLEAN
    /\ CodecInit
    /\ IntIdle
    /\ MapIdle
    /\ UiIdle

\* the state after `let mut rb = new_protocol_buffer(); msg.write(&mut rb)`
Written(w, msg, from_line) ==
    LET tag == WriteTag(w)
    IN /\ buf' = IF tag = "Ok" THEN w.buf ELSE new_protocol_buffer
       /\ origin' = IF tag # "Ok" THEN "aborted"
                    ELSE IF from_line # 0 THEN "rewrite" ELSE "write"
       /\ sent' = msg
       /\ wres' = [tag |-> tag, index |-> IF tag = "Ok" THEN w.index ELSE 0,
                   oob |-> w.oob]
       /\ line' = from_line
       /\ res' = NoRes
       /\ UNCHANGED <<overflow_checks, ui_vars, int_vars, map_vars>>

NewBuffer ==
    /\ origin # "new"
    /\ buf' = new_protocol_buffer
    /\ origin' = "new"
    /\ sent' = NoMsg
    /\ wres' = NoWrite
    /\ line' = 0
    /\ res' = NoRes
    /\ UNCHANGED <<overflow_checks, ui_vars, int_vars, map_vars>>

CommandWrite ==
    /\ origin = "new"
    /\ \E cmd \in Commands \cup WideCommands :
        Written(BotCommand_write(new_protocol_buffer, cmd), cmd, 0)

EventWrite ==
    /\ origin = "new"
    /\ \E evt \in Events \cup WideEvents :
        Written(BotEvent_write(new_protocol_buffer, evt), evt, 0)

BufferFromStr ==
    \E k \in 1..Len(Lines) :
        /\ origin = "new"
        /\ buf' = buffer_from_str(Lines[k].text)
        /\ origin' = "line"
        /\ sent' = NoMsg
        /\ wres' = NoWrite
        /\ line' = k
        /\ res' = NoRes
        /\ UNCHANGED <<overflow_checks, ui_vars, int_vars, map_vars>>

CommandParse ==
    /\ origin # "aborted"
    /\ res' = BotCommand_parse(buf)
    /\ UNCHANGED <<overflow_checks, ui_vars, buf, origin, sent, wres, line, int_vars, map_vars>>

EventParse ==
    /\ origin # "aborted"
    /\ res' = BotEvent_parse(buf)
    /\ UNCHANGED <<overflow_checks, ui_vars, buf, origin, sent, wres, line, int_vars, map_vars>>

\* it_handles_commands: the parsed command is written into a fresh buffer
CommandRewrite ==
    /\ origin = "line"
    /\ res.of = "cmd"
    /\ res.tag = "Ok"
    /\ Written(BotCommand_write(new_protocol_buffer, res.val), res.val, line)

\* it_handles_events: the parsed event is written into a fresh buffer
EventRewrite ==
    /\ origin = "line"
    /\ res.of = "evt"
    /\ res.tag = "Ok"
    /\ Written(BotEvent_write(new_protocol_buffer, res.val), res.val, line)

\* msg.write(&mut rb) on a buffer that holds an earlier frame: the write
\* starts at index 0 and stores the bytes of its frame only
Overwritten(w, msg) ==
    LET tag == WriteTag(w)
    IN /\ buf' = IF tag = "Ok" THEN w.buf ELSE new_protocol_buffer
       /\ origin' = IF tag # "Ok" THEN "aborted" ELSE "overwrite"
       /\ sent' = msg
       /\ wres' = [tag |-> tag, index |-> IF tag = "Ok" THEN w.index ELSE 0,
                   oob |-> w.oob]
       /\ line' = 0
       /\ res' = NoRes
       /\ UNCHANGED <<overflow_checks, ui_vars, int_vars, map_vars>>

CommandOverwrite ==
    /\ origin = "write"
    /\ sent \in StaleTargets
    /\ \E cmd \in Commands : Overwritten(BotCommand_write(buf, cmd), cmd)

EventOverwrite ==
    /\ origin = "write"
    /\ sent \in StaleTargets
    /\ \E evt \in Events : Overwritten(BotEvent_write(buf, evt), evt)

\* a byte of the frame is altered on the serial line
Damage ==
    /\ origin = "write"
    /\ sent \in DamageTargets
    /\ \E i \in 0..(wres.index - 1), c \in DamageBytes :
          /\ buf[i] # c
          /\ buf' = [buf EXCEPT ![i] = c]
    /\ origin' = "damaged"
    /\ res' = NoRes
    /\ UNCHANGED <<overflow_checks, ui_vars, sent, wres, line, int_vars, map_vars>>

\* the terminator is lost and the rest of the buffer holds the byte c
Overrun ==
    /\ origin = "write"
    /\ \E c \in OverrunBytes :
          buf' = [i \in BufIndex |-> IF i >= wres.index - 1 THEN c ELSE buf[i]]
    /\ origin' = "damaged"
    /\ res' = NoRes
    /\ UNCHANGED <<overflow_checks, ui_vars, sent, wres, line, int_vars, map_vars>>

Next ==
    \/ NewBuffer
    \/ CommandWrite
    \/ EventWrite
    \/ BufferFromStr
    \/ CommandParse
    \/ EventParse
    \/ CommandRewrite
    \/ EventRewrite
    \/ CommandOverwrite
    \/ EventOverwrite
    \/ Damage
    \/ Overrun

Spec == Init /\ [][Next]_vars

IntSpecInit ==
    /\ overflow_checks \in BOOLEAN
    /\ CodecInit
    /\ IntInit
    /\ MapIdle
    /\ UiIdle

IntNext == IntWrite \/ IntMatch

IntSpec == IntSpecInit /\ [][IntNext]_vars

---------------------------------------------------------------------------
(* The section model: a wire section is converted and checked.             *)

SectionInit ==
    /\ overflow_checks \in BOOLEAN
    /\ CodecInit
    /\ IntIdle
    /\ msec \in {[kind |-> "todo", shape |-> w.shape, data |-> w.data] : w \in WireSections}
                \cup {[kind |-> "angle", angle |-> a] : a \in AngleInputs}
    /\ map = Map_new
    /\ mprev = Map_new
    /\ mop = NoOp
    /\ mq = NoQuery
    /\ calls = 0
    /\ UiIdle

\* MapSection::from_protocol_data(&data), then is_valid() of the result
SectionConvert ==
    /\ msec.kind = "todo"
    /\ LET converted(s) == [kind |-> "section", shape |-> msec.shape, data |-> msec.data,
                            section |-> s, valid |-> MapSection_is_valid(s)]
       IN msec' = converted(MapSection_from_protocol_data(msec.shape, msec.data))
    /\ UNCHANGED <<overflow_checks, ui_vars, codec_vars, int_vars, map, mprev, mop, mq, calls>>

\* the segments map_segmentation makes of the section
SectionSegment ==
    /\ msec.kind = "section"
    /\ msec' = [kind |-> "segments", shape |-> msec.shape, data |-> msec.data,
                section |-> msec.section, valid |-> msec.valid,
                segments |-> section_segments(msec.section)]
    /\ UNCHANGED <<overflow_checks, ui_vars, codec_vars, int_vars, map, mprev, mop, mq, calls>>

\* the section is given a heading to start at, as complete_configuration
\* gives it, and compute_end_geometry tells the heading it ends at; the two
\* points it also tells are exact in this model for quarter turns only and
\* are not kept here
SectionEnd ==
    /\ msec.kind = "section"
    /\ \E h \in HeadingStarts :
          LET ended(self) == [kind |-> "end", shape |-> msec.shape, data |-> msec.data,
                              section |-> self,
                              heading_end |-> compute_end_geometry(self)[2]]
          IN msec' = ended([msec.section EXCEPT !.heading_start = h])
    /\ UNCHANGED <<overflow_checks, ui_vars, codec_vars, int_vars, map, mprev, mop, mq, calls>>

\* normalize_angle(angle)
NormalizeAngle ==
    /\ msec.kind = "angle"
    /\ msec' = [kind |-> "normalized", angle |-> msec.angle,
                result |-> normalize_angle(msec.angle)]
    /\ UNCHANGED <<overflow_checks, ui_vars, codec_vars, int_vars, map, mprev, mop, mq, calls>>

SectionNext == SectionConvert \/ SectionSegment \/ SectionEnd \/ NormalizeAngle

SectionSpec == SectionInit /\ [][SectionNext]_vars

---------------------------------------------------------------------------
(* The map: a caller resets it, stores sections in it, completes it and    *)
(* asks it about indexes.                                                  *)

MapInit ==
    /\ overflow_checks \in BOOLEAN
    /\ CodecInit
    /\ IntIdle
    /\ MapIdle
    /\ UiIdle

\* the state after an operation that leaves the map as m
Operated(m, op) ==
    /\ map' = m
    /\ mprev' = map
    /\ mop' = op
    /\ mq' = NoQuery
    /\ calls' = calls + 1
    /\ UNCHANGED <<overflow_checks, ui_vars, codec_vars, int_vars, msec>>

MapReset ==
    /\ calls < MaxCalls
    /\ ~mop.panic
    /\ Operated(Map_reset(map), MapOp("reset", usize(0), EMPTY_SECTION, FALSE))

\* map.configure_section(index, &section): an index outside the array panics
Configured(index, section, op) ==
    IF index.hi \/ index.lo >= MAP_SECTIONS_MAX_COUNT
    THEN Operated(map, MapOp(op, index, section, TRUE))
    ELSE Operated(Map_configure_section(map, index.lo, section),
                  MapOp(op, index, section, FALSE))

\* a section converted from the wire is stored, at the index a MAP-SECTION
\* line carries: the parser makes it of an i32 by `as usize`
ConfigureSection ==
    /\ calls < MaxCalls
    /\ ~mop.panic
    /\ \E i \in (-1..MaxSlot) \cup {MAP_SECTIONS_MAX_COUNT}, section \in TrackSections :
          Configured(as_usize(i), section, "configure")

\* a section read from the map, let section = map[j], is stored
ConfigureCopy ==
    /\ calls < MaxCalls
    /\ ~mop.panic
    /\ \E i \in 0..MaxSlot, j \in 0..MaxSlot :
          Configured(usize(i), Map_index(map, j), "copy")

CompleteConfiguration ==
    /\ calls < MaxCalls
    /\ ~mop.panic
    /\ Operated(Map_complete_configuration(map),
                MapOp("complete", usize(0), EMPTY_SECTION, FALSE))

\* new_map(&SECTIONS) of map_tests.rs, which makes its own Map::new()
NewMap ==
    /\ calls = 0
    /\ Operated(new_map(SECTIONS), MapOp("new_map", usize(0), EMPTY_SECTION, FALSE))

\* fix_index(i), next_index(i) and previous_index(i)
IndexQuery ==
    /\ ~mop.panic
    /\ \E i \in 0..MaxIndex :
          mq' = [kind |-> "query", index |-> i, fix |-> fix_index(map, i),
                 next |-> next_index(map, i), previous |-> previous_index(map, i)]
    /\ UNCHANGED <<overflow_checks, ui_vars, codec_vars, int_vars, msec, map, mprev, mop, calls>>

\* map_segmentation(&map)
MapSegmentation ==
    /\ ~mop.panic
    /\ mq' = [kind |-> "segments", segments |-> map_segmentation(map)]
    /\ UNCHANGED <<overflow_checks, ui_vars, codec_vars, int_vars, msec, map, mprev, mop, calls>>

MapNext ==
    \/ MapReset
    \/ ConfigureSection
    \/ ConfigureCopy
    \/ CompleteConfiguration
    \/ NewMap
    \/ IndexQuery
    \/ MapSegmentation

MapSpec == MapInit /\ [][MapNext]_vars

---------------------------------------------------------------------------
(* The loop of the simulator: a frame is rendered, which makes one pass of *)
(* gui(), and the motors are given the power the panel holds.              *)

MaxClicks == 2   \* clicks one button reports in one pass
PadValues == {-1, 0, 1}

\* what the widgets report in one pass
UiInputs ==
    [left : 0..MaxClicks, center : 0..MaxClicks, right : 0..MaxClicks,
     command : BOOLEAN,
     pad : {DirectPower_none}
           \cup {DirectPower_from_front_side(f, s) : f \in PadValues, s \in PadValues}]

UiInit ==
    /\ overflow_checks \in BOOLEAN
    /\ CodecInit
    /\ IntIdle
    /\ MapIdle
    /\ UiIdle

\* while visual_world.render() { ...; match visual_world.ui().power { ... } }
Frame ==
    /\ \E input \in UiInputs :
          LET shown(s) ==
                  /\ ui_state' = s
                  /\ motor_power' = IF s.power.some THEN DirectPower_power(s.power)
                                    ELSE <<0, 0, 0, 0>>
          IN shown(gui([ui_state EXCEPT !.moves = {}], input))
    /\ UNCHANGED <<overflow_checks, codec_vars, int_vars, map_vars>>

UiNext == Frame

UiSpec == UiInit /\ [][UiNext]_vars

---------------------------------------------------------------------------
(* The wire grammar (spec.md, section 6), as templates of tokens: a        *)
(* keyword, a separator, an integer, the bytes of a log message, the       *)
(* terminator.  It is the reference against which error offsets are read.  *)

Kw(s) == [t |-> "kw", s |-> s]
SepTok == [t |-> "sep", s |-> <<>>]
IntTok == [t |-> "int", s |-> <<>>]
LogTok == [t |-> "log", s |-> <<>>]
EndTok == [t |-> "end", s |-> <<>>]

\* n integer fields, each behind its separator
IntFields(n) == [i \in 1..(2 * n) |-> IF i % 2 = 1 THEN SepTok ELSE IntTok]

CommandGrammar ==
    {<<Kw(MAP_START)>> \o IntFields(1) \o <<EndTok>>,
     <<Kw(MAP_SECTION)>> \o IntFields(1) \o <<SepTok, Kw(STRAIGHT)>> \o IntFields(3) \o <<EndTok>>,
     <<Kw(MAP_SECTION)>> \o IntFields(1) \o <<SepTok, Kw(LEFT)>> \o IntFields(5) \o <<EndTok>>,
     <<Kw(MAP_SECTION)>> \o IntFields(1) \o <<SepTok, Kw(RIGHT)>> \o IntFields(5) \o <<EndTok>>,
     <<Kw(MAP_SECTION)>> \o IntFields(1) \o <<SepTok, Kw(UP)>> \o IntFields(4) \o <<EndTok>>,
     <<Kw(MAP_SECTION)>> \o IntFields(1) \o <<SepTok, Kw(DOWN)>> \o IntFields(4) \o <<EndTok>>,
     <<Kw(MAP_END), EndTok>>, <<Kw(RESET), EndTok>>, <<Kw(START), EndTok>>,
     <<Kw(PAUSE), EndTok>>, <<Kw(RESTART), EndTok>>,
     <<Kw(DIRECT)>> \o IntFields(4) \o <<EndTok>>}

EventGrammar ==
    {<<Kw(STATUS), SepTok, Kw(INVALID_MAP), EndTok>>,
     <<Kw(STATUS), SepTok, Kw(DEVICE_ERROR), EndTok>>,
     <<Kw(STATUS), SepTok, Kw(STOPPED), EndTok>>,
     <<Kw(STATUS), SepTok, Kw(WAITING)>> \o IntFields(2) \o <<EndTok>>,
     <<Kw(STATUS), SepTok, Kw(RACING)>> \o IntFields(5) \o <<EndTok>>,
     <<Kw(LASERS)>> \o IntFields(LASER_COUNT) \o <<EndTok>>,
     <<Kw(IMU)>> \o IntFields(9) \o <<EndTok>>,
     <<Kw(LOG), SepTok, LogTok, EndTok>>}

Grammar(of) == IF of = "cmd" THEN CommandGrammar ELSE EventGrammar

\* the least element of a non-empty set of integers
Least(S) == CHOOSE i \in S : \A j \in S : i <= j

\* the first index from i on whose byte is no digit, the buffer's size if none
RunEnd(b, i) ==
    LET nd == {x \in i..(PROTOCOL_BUFFER_SIZE - 1) : ~(b[x] \in CODE_ZERO..CODE_NINE)}
    IN IF nd = {} THEN PROTOCOL_BUFFER_SIZE ELSE Least(nd)

\* the end of a log message starting at i: the first newline among at most
\* MAX_LOG_LINE_SIZE bytes
LogEnd(b, i) ==
    LET nl == {x \in i..(PROTOCOL_BUFFER_SIZE - 1) : x < i + MAX_LOG_LINE_SIZE /\ b[x] = CODE_END}
    IN IF nl # {} THEN Least(nl)
       ELSE IF i + MAX_LOG_LINE_SIZE < PROTOCOL_BUFFER_SIZE THEN i + MAX_LOG_LINE_SIZE
       ELSE PROTOCOL_BUFFER_SIZE

Bad(i, in_kw, at) == [ok |-> FALSE, bad |-> i, in_kw |-> in_kw, at |-> at]
Good(i) == [ok |-> TRUE, bad |-> i, in_kw |-> FALSE, at |-> i]

\* the token tok read at index i of the buffer: ok with the index bad after
\* it when it matches, else the index bad of the first byte that does not
\* match, whether it lies in a keyword, and the index at which the token starts
ScanToken(b, i, tok) ==
    IF i >= PROTOCOL_BUFFER_SIZE THEN Bad(i, tok.t = "kw", i)
    ELSE CASE tok.t = "kw" ->
                LET wrong == {j \in 1..Len(tok.s) :
                                \/ i + j - 1 >= PROTOCOL_BUFFER_SIZE
                                \/ b[i + j - 1] # tok.s[j]}
                IN IF wrong = {} THEN Good(i + Len(tok.s))
                   ELSE Bad(i + Least(wrong) - 1, TRUE, i)
           [] tok.t = "sep" ->
                IF b[i] = CODE_SEPARATOR THEN Good(i + 1) ELSE Bad(i, FALSE, i)
           [] tok.t = "end" ->
                IF b[i] = CODE_END THEN Good(i + 1) ELSE Bad(i, FALSE, i)
           [] tok.t = "int" ->
                LET j == IF b[i] = CODE_MINUS THEN i + 1 ELSE i
                    e == RunEnd(b, j)
                IN IF e = j THEN Bad(j, FALSE, i) ELSE Good(e)
           [] tok.t = "log" -> Good(LogEnd(b, i))

\* the tokens toks[lo], ..., toks[hi] read one after the other from r on
RECURSIVE ScanRange(_, _, _, _, _)
ScanRange(b, r, toks, lo, hi) ==
    CASE ~r.ok \/ lo > hi -> r
      [] lo = hi -> ScanToken(b, r.bad, toks[lo])
      [] OTHER -> ScanRange(b, ScanRange(b, r, toks, lo, (lo + hi) \div 2), toks,
                            ((lo + hi) \div 2) + 1, hi)

\* the buffer read against a template from index 0
Scan(b, toks) == ScanRange(b, Good(0), toks, 1, Len(toks))

\* the buffer against the whole grammar: the template that gets furthest
\* tells where the first byte is that no frame of the grammar has there
FirstBad(b, of) ==
    LET scans == {Scan(b, t) : t \in Grammar(of)}
    IN IF \E r \in scans : r.ok THEN Good(0)
       ELSE CHOOSE r \in scans : \A q \in scans : q.bad <= r.bad

\* the digits of |v|
AbsDigits(v) == IF v = I32_MIN THEN MinDigits ELSE IF v < 0 THEN Digits(-v) ELSE Digits(v)

\* text is the canonical signed decimal of v, read off its shape
IsCanonical(text, v) ==
    IF v = 0 THEN text = <<CODE_ZERO>>
    ELSE LET neg == Len(text) > 0 /\ text[1] = CODE_MINUS
             ds == IF neg THEN Tail(text) ELSE text
         IN /\ neg = (v < 0)
            /\ Len(ds) > 0
            /\ \A k \in 1..Len(ds) : ds[k] \in CODE_ZERO..CODE_NINE
            /\ ds[1] # CODE_ZERO
            /\ ds = AbsDigits(v)

---------------------------------------------------------------------------
(* Properties *)

\* C1: every command with fields in their documented ranges is written
\* without failure, and a command parse of the buffer so written returns Ok
\* with a command equal to the one written.
C1_CommandRoundTrip ==
    /\ sent \in Commands => origin # "aborted"
    /\ (origin = "write" /\ sent \in Commands /\ res.of = "cmd")
          => (res.tag = "Ok" /\ msg_eq(res.val, sent))

\* a left turn with distinct radii went through write and parse
C1_Witness ==
    /\ origin = "write"
    /\ sent \in Commands
    /\ sent.kind = "MapSection"
    /\ sent.shape = "TurnLeft"
    /\ sent.data.radius_start # sent.data.radius_end
    /\ res.of = "cmd"
    /\ res.tag = "Ok"

\* C2: every Status, Lasers or Imu event with fields in their documented
\* ranges is written without failure, and an event parse of the buffer so
\* written returns Ok with an event equal to the one written.
C2_EventRoundTrip ==
    /\ (sent \in Events /\ sent.kind # "Log") => origin # "aborted"
    /\ (origin = "write" /\ sent \in Events /\ sent.kind # "Log" /\ res.of = "evt")
          => (res.tag = "Ok" /\ msg_eq(res.val, sent))

\* a Waiting status went through write and parse
C2_Witness ==
    /\ origin = "write"
    /\ sent \in Events
    /\ sent.kind = "Status"
    /\ sent.state = "Waiting"
    /\ res.of = "evt"
    /\ res.tag = "Ok"

\* C3: a Log event of any length n in 0..MAX_LOG_LINE_SIZE, written and
\* parsed, comes back as a Log of length n with the same n bytes.
C3_LogRoundTrip ==
    (origin = "write" /\ sent.kind = "Log" /\ res.of = "evt")
       => /\ res.tag = "Ok"
          /\ res.val.kind = "Log"
          /\ res.val.length = sent.length
          /\ \A i \in 0..(sent.length - 1) : res.val.message[i] = sent.message[i]

\* C4, as stated: a failed parse returns the index of the first byte of the
\* buffer that does not match the grammar, wherever that byte lies.
C4_ExactOffset ==
    res.tag = "Err" => res.index = FirstBad(buf, res.of).bad

\* C4, amended: a failed parse returns the index of the first byte that does
\* not match the grammar when that byte lies in a separator, an integer or
\* the terminator; when it lies in a keyword (of the message, the shape or
\* the status) the index returned is the one at which that keyword starts.
C4_OffsetOrKeywordStart ==
    res.tag = "Err" =>
        LET f == FirstBad(buf, res.of)
        IN ~f.ok /\ res.index = (IF f.in_kw THEN f.at ELSE f.bad)

\* a parse failed on a byte inside a shape or status keyword, past its start
C4_Witness ==
    /\ res.tag = "Err"
    /\ LET f == FirstBad(buf, res.of)
       IN f.in_kw /\ f.at > 0 /\ f.bad > f.at /\ res.index = f.at

\* C5: whatever the buffer holds, a parse returns Ok or Err with an index
\* inside the buffer: it reads no byte outside the buffer and does not abort
\* on an overflow.
C5_ParseTotal ==
    res.of # "none" => (res.tag \in {"Ok", "Err"} /\ res.index < PROTOCOL_BUFFER_SIZE)

\* C6: a parse returns Ok only when the byte after the last field of the
\* message is the newline.
C6_OkOnlyBeforeNewline ==
    (res.of # "none" /\ res.tag = "Ok")
       => (res.index < PROTOCOL_BUFFER_SIZE /\ buf[res.index] = CODE_END)

\* C7: a line in canonical form is parsed with success, and the parsed
\* message written into a fresh buffer gives the bytes of the line.
C7_CanonicalLineRewrite ==
    /\ (origin = "line" /\ Lines[line].canonical /\ res.of = Lines[line].of)
          => res.tag = "Ok"
    /\ (line # 0 /\ origin \in {"rewrite", "aborted"} /\ Lines[line].canonical)
          => (wres.tag = "Ok" /\ buffer_to_string(buf) = Lines[line].text)

\* C8: write_i32 writes the canonical signed decimal of its value and
\* returns the index after the last byte written.
C8_CanonicalDecimal ==
    iout.kind = "write"
       => /\ iout.tag = "Ok"
          /\ IsCanonical(iout.text, ival)
          /\ iout.index = iout.last + 1

\* C9: match_i32 accepts a run of digits behind an optional '-', leading
\* zeros included, with the value the run denotes and the index after the
\* run; it rejects an empty run with the index at which a digit was expected.
C9_MatchAnyRun ==
    iin.kind = "match"
       => /\ itext.fits
               => /\ iin.tag = "Ok"
                  /\ iin.value = itext.val
                  /\ iin.index = itext.start + Len(RunText(itext))
          /\ (itext.digits = <<>> /\ itext.zeros = 0)
               => /\ iin.tag = "Err"
                  /\ iin.index = itext.start + (IF itext.neg THEN 1 ELSE 0)

\* C10: for every i32, write_i32 ends without an overflow and writes the
\* decimal digits of the value.
C10_WriteTotal ==
    iout.kind = "write"
       => /\ iout.tag = "Ok"
          /\ ~iout.ovf
          /\ iout.text = Canon(ival)

\* C11: a write of any command or event (fields over the whole i32 range, a
\* log of at most MAX_LOG_LINE_SIZE bytes) returns with the whole frame in
\* the buffer, its newline at an index below PROTOCOL_BUFFER_SIZE, and no
\* store at an index outside the buffer.
C11_WriteInsideBuffer ==
    (sent # NoMsg /\ origin \in {"write", "rewrite", "aborted"})
       => /\ ~wres.oob
          /\ wres.tag = "Ok"
          /\ wres.index <= PROTOCOL_BUFFER_SIZE
          /\ buf[wres.index - 1] = CODE_END

\* a section that has been through a completed map: the geometry fields hold
\* values other than zero
Placed(s) ==
    [s EXCEPT !.start = V3(1000000, 0, 500000), !.end = V3(1500000, 300000, -500000),
              !.center = V3(-250000, 150000, 0), !.heading_start = Angle(180, 0),
              !.heading_end = Angle(-90, 4)]

\* C12: MapSection::is_valid returns true exactly when width_start > 0 and
\* width_end > 0 and, by shape, a straight has length > 0, a slope has
\* length > 0 and height other than 0, a turn has radius_start > 0 and
\* radius_end > 0; the geometry fields of the section have no influence.
C12_SectionValidity ==
    msec.kind = "section" =>
        LET s == msec.section
        IN /\ msec.valid <=>
                /\ s.width_start > 0
                /\ s.width_end > 0
                /\ s.shape.kind = "Straigth" => s.shape.length > 0
                /\ s.shape.kind = "Slope" => s.shape.length > 0 /\ s.shape.height # 0
                /\ s.shape.kind = "Turn" => s.shape.radius_start > 0 /\ s.shape.radius_end > 0
           /\ MapSection_is_valid(Placed(s)) = msec.valid

C12_Witness ==
    /\ msec.kind = "section"
    /\ msec.valid
    /\ msec.section.shape.kind = "Slope"
    /\ msec.section.shape.height < 0

\* the shape kind from_protocol_data gives each wire shape, and the sign of
\* the slope height it gives a positive wire height
ShapeAndHeight ==
    LET s == msec.section
    IN /\ msec.shape = "Straight" => s.shape.kind = "Straigth"
       /\ msec.shape \in {"TurnLeft", "TurnRight"} => s.shape.kind = "Turn"
       /\ msec.shape \in {"SlopeUp", "SlopeDown"} => s.shape.kind = "Slope"
       /\ (msec.shape = "SlopeUp" /\ msec.data.height > 0) => s.shape.height > 0
       /\ (msec.shape = "SlopeDown" /\ msec.data.height > 0) => s.shape.height < 0

Completed == mop.op \in {"complete", "new_map"} /\ ~mop.panic

\* the slots of m whose section passes is_valid
ValidSlots(m) == {i \in Slots : MapSection_is_valid(m.sections[i])}

\* C14: after complete_configuration, length is one more than the highest
\* index in [0, MAP_SECTIONS_MAX_COUNT) whose section is valid, or 0 when no
\* section is valid, whatever the validity of the slots below that index and
\* whatever length was before.
C14_LengthIsLastValid ==
    Completed =>
        map.length = IF ValidSlots(map) = {} THEN 0
                     ELSE 1 + CHOOSE i \in ValidSlots(map) : \A j \in ValidSlots(map) : j <= i

C14_Witness ==
    /\ mop.op = "complete"
    /\ map.length = 3
    /\ ValidSlots(map) = {0, 2}
    /\ mprev.length = 0

\* an invalid section lies at an index below the length of m
Gap(m) == \E i \in Slots : i < m.length /\ ~MapSection_is_valid(m.sections[i])

ZeroGeometry(s) ==
    /\ s.start = V3_zero
    /\ s.end = V3_zero
    /\ s.center = V3_zero
    /\ s.heading_start = Angle_zero
    /\ s.heading_end = Angle_zero

\* C15 (as amended): a complete_configuration that leaves an invalid section
\* at an index below length gives no section any geometry: every section
\* whose start, end, center, heading_start and heading_end were zero before
\* the call has them zero after it.  Geometry that an earlier completion
\* chained, or that came with a stored section, stays where it was.
C15_GapCompletionAddsNoGeometry ==
    (mop.op = "complete" /\ Gap(map)) =>
        \A i \in Slots : ZeroGeometry(mprev.sections[i]) => ZeroGeometry(map.sections[i])

C15_Witness ==
    /\ mop.op = "complete"
    /\ Gap(map)
    /\ map.length = 3
    /\ MapSection_is_valid(map.sections[0])
    /\ \A i \in Slots : ZeroGeometry(map.sections[i])

\* C15 (as stated): after a complete_configuration that leaves an invalid
\* section at an index below length, the start, end, center, heading_start
\* and heading_end of every section are zero, for every sequence of
\* configure_section, complete_configuration and reset calls.
C15_GapMapHoldsNoGeometry ==
    (mop.op = "complete" /\ Gap(map)) => \A i \in Slots : ZeroGeometry(map.sections[i])

\* C16: when the map fails the aggregate is_valid check after length has
\* been recomputed, complete_configuration changes nothing but length: every
\* field of each of the MAP_SECTIONS_MAX_COUNT slots, geometry included,
\* keeps the value it had before the call.
C16_InvalidCompletionKeepsSections ==
    (mop.op = "complete" /\ ~Map_is_valid(map)) => map.sections = mprev.sections

C16_Witness ==
    /\ mop.op = "complete"
    /\ ~Map_is_valid(map)
    /\ map.length = 7
    /\ map.sections = mprev.sections
    /\ ~ZeroGeometry(map.sections[2])

\* the last operation was a configure_section that returned
Stored == mop.op \in {"configure", "copy"} /\ ~mop.panic

\* length and the slots other than the one stored into are as they were
OtherSlotsKept ==
    /\ map.length = mprev.length
    /\ \A j \in Slots \ {mop.index.lo} : map.sections[j] = mprev.sections[j]

\* C17 (as amended): configure_section(index, section), for an index below
\* MAP_SECTIONS_MAX_COUNT, stores the passed section whole at slot index: its
\* shape, its widths and the geometry fields it carries, which are zero for a
\* section fresh from from_protocol_data and are the chained values for one
\* copied from a completed map; length and the other slots are unchanged.
C17_StoresSectionWhole ==
    Stored => /\ map.sections[mop.index.lo] = mop.section
              /\ OtherSlotsKept

C17_Witness ==
    /\ mop.op = "copy"
    /\ ~mop.panic
    /\ mop.section.shape.kind = "Turn"
    /\ ~ZeroGeometry(mop.section)
    /\ map.sections[mop.index.lo] = mop.section
    /\ mprev.sections[mop.index.lo] # mop.section

\* C17 (as stated): configure_section(index, section) stores the shape and
\* the widths of the section at slot index with the geometry fields reset to
\* zero, whatever geometry the passed section carries, and leaves length and
\* the other slots unchanged.
C17_StoresSectionWithZeroGeometry ==
    Stored => /\ map.sections[mop.index.lo].shape = mop.section.shape
              /\ map.sections[mop.index.lo].width_start = mop.section.width_start
              /\ map.sections[mop.index.lo].width_end = mop.section.width_end
              /\ ZeroGeometry(map.sections[mop.index.lo])
              /\ OtherSlotsKept

\* C18: right after complete_configuration on a valid map, section 0 starts
\* at the origin with heading 0, and for every i in [0, length - 1) the end
\* of section i is the start of section i + 1 and its heading_end is that
\* section's heading_start.
C18_ChainingContinuity ==
    (Completed /\ Map_is_valid(map)) =>
        /\ map.sections[0].start = V3_zero
        /\ map.sections[0].heading_start = Angle_zero
        /\ \A i \in Slots :
              i < map.length - 1 =>
                 /\ map.sections[i].end = map.sections[i + 1].start
                 /\ map.sections[i].heading_end = map.sections[i + 1].heading_start

C18_Witness ==
    /\ mop.op = "complete"
    /\ Map_is_valid(map)
    /\ map.length = 2
    /\ map.sections[0].shape.kind = "Turn"
    /\ map.sections[1].shape.kind = "Slope"
    /\ map.sections[1].start = map.sections[0].end
    /\ map.sections[1].start.x > 0
    /\ map.sections[1].heading_start = Angle(90, 0)
    /\ map.sections[1].end.y < 0

\* check_relative_eq of map_tests.rs: the distance between the point v and
\* the point (x, y, z), given in micrometres, is below 0.001 m
check_relative_eq(v, x, y, z) ==
    LET near(dx, dy, dz) ==
            /\ dx > -1000 /\ dx < 1000
            /\ dy > -1000 /\ dy < 1000
            /\ dz > -1000 /\ dz < 1000
            /\ dx * dx + dy * dy + dz * dz < 1000 * 1000
    IN near(v.x - x, v.y - y, v.z - z)

\* C19: the seven sections of the test track give a map of length 7 whose
\* chained points are the asserted ones to within the 0.001 m of the test:
\* section 0 from (0, 0, 0) to (0, 0, 1.0), section 1 ending at
\* (1.0, 0, 1.0), section 4 from (1.5, 0, -0.5) to (1.0, 0.3, -0.5), and the
\* last section ending at the origin.
C19_TestTrackPoints ==
    mop.op = "new_map" =>
        /\ map.length = 7
        /\ check_relative_eq(map.sections[0].start, 0, 0, 0)
        /\ check_relative_eq(map.sections[0].end, 0, 0, 1000000)
        /\ check_relative_eq(map.sections[1].end, 1000000, 0, 1000000)
        /\ check_relative_eq(map.sections[4].start, 1500000, 0, -500000)
        /\ check_relative_eq(map.sections[4].end, 1000000, 300000, -500000)
        /\ check_relative_eq(map.sections[6].end, 0, 0, 0)

C19_Witness ==
    /\ mop.op = "new_map"
    /\ Map_is_valid(map)
    /\ map.sections[4].shape.kind = "Slope"
    /\ map.sections[4].end.y = 300000
    /\ map.sections[6].heading_end = Angle(360, -4)

\* C20: fix_index(i) is i modulo length when length > 0 and i itself when
\* length is 0; when length > 0, for every index i, next_index(i) and
\* previous_index(i) return an index in [0, length), next_index(length - 1)
\* is 0, previous_index(0) is length - 1, and next_index(previous_index(i))
\* is i for every i in [0, length).
C20_IndexesWrap ==
    mq.kind = "query" =>
        /\ mq.fix = IF map.length > 0 THEN mq.index % map.length ELSE mq.index
        /\ map.length > 0 =>
              /\ mq.next \in 0..(map.length - 1)
              /\ mq.previous.st = "Ok"
              /\ ~mq.previous.max
              /\ mq.previous.v \in 0..(map.length - 1)
              /\ mq.index = map.length - 1 => mq.next = 0
              /\ mq.index = 0 => mq.previous.v = map.length - 1
              /\ mq.index < map.length => next_index(map, mq.previous.v) = mq.index

\* C21: the segmentation of a turn, whatever its turning angle (0 and angles
\* below 15 degrees included), is an odd number of segments, at least one;
\* the first has is_lighter false and each later one has the opposite flag of
\* the one before it; a straight or a slope gives exactly one segment, with
\* is_lighter true.
C21_TurnSegmentsOddAlternating ==
    msec.kind = "segments" =>
        LET segs == msec.segments
        IN IF msec.section.shape.kind = "Turn"
           THEN /\ Len(segs) >= 1
                /\ Len(segs) % 2 = 1
                /\ ~segs[1].is_lighter
                /\ \A j \in 1..(Len(segs) - 1) :
                      segs[j + 1].is_lighter = ~segs[j].is_lighter
           ELSE /\ Len(segs) = 1
                /\ segs[1].is_lighter

C21_Witness ==
    /\ msec.kind = "segments"
    /\ msec.section.shape.kind = "Turn"
    /\ msec.data.angle = 44
    /\ Len(msec.segments) = 3
    /\ msec.segments[2].is_lighter
    /\ ~msec.segments[3].is_lighter

\* C22: no operation of Map aborts: configure_section returns for every
\* index (20 and above, and the index a negative wire index becomes,
\* included), and previous_index returns on a map of length 0.
C22_NoMapOperationAborts ==
    /\ ~mop.panic
    /\ (mq.kind = "query" => mq.previous.st = "Ok")

\* 15 degrees on the scale of Angle_scaled, and the turning angle and the
\* number of segments of a segmented turn
FifteenDegrees == 471239
TurnedAngle ==
    LET abs(c) == IF c < 0 THEN -c ELSE c
    IN abs(Angle_scaled(msec.section.shape.turning_angle))
SegmentedTurn == msec.kind = "segments" /\ msec.section.shape.kind = "Turn"

\* C23: the number of segments of a turn is the quotient of the turning
\* angle in degrees by 15, truncated, and raised by one when that is even:
\* it is the odd number between the quotient and the quotient plus one, and
\* a segment spans less than 30 degrees.
C23_StepsTruncatedThenOdd ==
    SegmentedTurn =>
        LET n == Len(msec.segments)
        IN /\ n % 2 = 1
           /\ n * FifteenDegrees <= TurnedAngle + FifteenDegrees
           /\ n * FifteenDegrees > TurnedAngle - FifteenDegrees
           /\ TurnedAngle < 2 * n * FifteenDegrees

C23_Witness ==
    /\ SegmentedTurn
    /\ msec.data.angle = 20
    /\ Len(msec.segments) = 1
    /\ TurnedAngle > FifteenDegrees

\* C23 as stated: the number of segments is the quotient rounded up and then
\* made odd, and no segment spans more than 15 degrees.
C23_StepsCeilingThenOdd ==
    SegmentedTurn =>
        LET n == Len(msec.segments)
            odd(steps) == IF steps % 2 = 0 THEN steps + 1 ELSE steps
        IN /\ n = odd((TurnedAngle + FifteenDegrees - 1) \div FifteenDegrees)
           /\ TurnedAngle <= n * FifteenDegrees

\* an angle against -pi and pi: the angle less -pi, and the angle less pi
AboveMinusPi(a) == Angle_scaled(Angle(a.k, a.q + 2))
AbovePi(a) == Angle_scaled(Angle(a.k, a.q - 2))
WholeTurnsApart(a, b) == a.k = b.k /\ (a.q - b.q) % 4 = 0

C25_ValidMapIsChained ==
    (~mop.panic /\ Map_is_valid(map)) =>
        /\ map.sections[0].start = V3_zero
        /\ map.sections[0].heading_start = Angle_zero
        /\ \A i \in Slots :
              i < map.length - 1 =>
                 /\ map.sections[i].end = map.sections[i + 1].start
                 /\ map.sections[i].heading_end = map.sections[i + 1].heading_start

\* C28: a complete_configuration that follows a complete_configuration, with
\* no configure_section and no reset between the two, leaves length and
\* every field of every section as the first call left them, for a map that
\* is valid and for one that is not.
C28_CompleteTwiceChangesNothing ==
    [][(Completed /\ mop'.op = "complete" /\ calls' = calls + 1) => map' = map]_vars

C28_Witness ==
    /\ mop.op = "complete"
    /\ calls = 3
    /\ mprev = map
    /\ Map_is_valid(map)
    /\ map.length = 1
    /\ map.sections[0].shape.kind = "Turn"
    /\ map.sections[0].end # V3_zero

\* C29: on a valid map that complete_configuration has completed, every
\* segment map_segmentation returns has both wall lengths above zero, the
\* inner wall of a turn (radius less half the width) included.
C29_SegmentWallsPositive ==
    (mq.kind = "segments" /\ Completed /\ Map_is_valid(map)) =>
        \A j \in 1..Len(mq.segments) :
            /\ mq.segments[j].length_left > 0
            /\ mq.segments[j].length_right > 0

\* the buffer b with every byte behind its first newline set to 0
FirstLine(b) ==
    LET ends == {i \in BufIndex : b[i] = CODE_END}
        cut(n) == [i \in BufIndex |-> IF i <= n THEN b[i] ELSE 0]
    IN IF ends = {} THEN b
       ELSE cut(CHOOSE n \in ends : \A m \in ends : n <= m)

\* a parse gives of the buffer what it gives of its first line alone
ParseReadsFirstLineOnly ==
    /\ res.of = "cmd" => res = BotCommand_parse(FirstLine(buf))
    /\ res.of = "evt" => res = BotEvent_parse(FirstLine(buf))

\* a message written over an earlier frame was parsed as what it is
OverwriteParsed ==
    /\ origin = "overwrite"
    /\ \/ res.of = "cmd" /\ sent \in Commands
       \/ res.of = "evt" /\ sent \in Events

\* C26: BotCommand::parse and BotEvent::parse give of a buffer what they
\* give of any buffer with the same bytes up to and including the first
\* newline, and a message written into a buffer that holds the bytes of an
\* earlier, longer message is parsed as the message written.
C26_OverwriteDecodesNewMessage ==
    /\ ParseReadsFirstLineOnly
    /\ OverwriteParsed => (res.tag = "Ok" /\ msg_eq(res.val, sent))

\* the same for every message but a Log of MAX_LOG_LINE_SIZE bytes, which no
\* buffer gives back (C3)
OverwriteDecodesBelowFullLog ==
    /\ ParseReadsFirstLineOnly
    /\ (OverwriteParsed /\ ~(sent.kind = "Log" /\ sent.length = MAX_LOG_LINE_SIZE))
          => (res.tag = "Ok" /\ msg_eq(res.val, sent))

\* a one-byte log line was parsed from a buffer whose bytes behind its
\* newline are those of the earlier frame
OverwriteSeen ==
    /\ OverwriteParsed
    /\ sent.kind = "Log"
    /\ sent.length = 1
    /\ buf[wres.index] # 0
    /\ res.tag = "Ok"

\* the keyword s begins the keyword t
IsPrefix(s, t) == Len(s) <= Len(t) /\ \A k \in 1..Len(s) : s[k] = t[k]
PrefixFree(kws) ==
    \A i \in 1..Len(kws), j \in 1..Len(kws) : i # j => ~IsPrefix(kws[i], kws[j])

\* the keywords in the opposite order
Reversed(kws) == [k \in 1..Len(kws) |-> kws[Len(kws) + 1 - k]]

\* the shape keyword of a MAP-SECTION stands behind the keyword, a
\* separator, the digits of the index and a separator: from index 14 on,
\* looked at up to MaxShapeIndex
MaxShapeIndex == 16

\* at index, at most one keyword of kws is matched, and the chain that tries
\* them in the opposite order ends as the chain of the code does, on the
\* same keyword
OneBranch(b, index, kws) ==
    LET hits == {k \in 1..Len(kws) : match_string(b, index, kws[k]).st = "Ok"}
        same(f, r) ==
            /\ f.st = r.st
            /\ f.st = "Ok" => (f.index = r.index /\ kws[f.which] = Reversed(kws)[r.which])
    IN /\ Cardinality(hits) <= 1
       /\ same(first_keyword(b, index, kws, 1), first_keyword(b, index, Reversed(kws), 1))

\* C27: the keywords of the commands, of the events, of the shapes of a
\* MAP-SECTION and of the states of a STATUS are each prefix-free, and so
\* are those of the commands and the events taken together; in every buffer
\* at most one keyword of a chain matches where the chain is tried, the order
\* in which a chain tries its keywords does not change what it finds, and no
\* buffer is
\* parsed with success both as a BotCommand and as a BotEvent.
C27_CodecUnambiguous ==
    /\ PrefixFree(CommandKeywords)
    /\ PrefixFree(EventKeywords)
    /\ PrefixFree(ShapeKeywords)
    /\ PrefixFree(StateKeywords)
    /\ PrefixFree(CommandKeywords \o EventKeywords)
    /\ OneBranch(buf, 0, CommandKeywords)
    /\ OneBranch(buf, 0, EventKeywords)
    /\ OneBranch(buf, Len(STATUS) + 1, StateKeywords)
    /\ \A index \in (Len(MAP_SECTION) + 3)..MaxShapeIndex :
          OneBranch(buf, index, ShapeKeywords)
    /\ ~(BotCommand_parse(buf).tag = "Ok" /\ BotEvent_parse(buf).tag = "Ok")

\* RESTART, which shares its first three bytes with RESET and holds START
\* from its third byte on, was parsed as Restart
C27_Witness ==
    /\ match_string(buf, 0, RESTART).st = "Ok"
    /\ match_string(buf, 2, START).st = "Ok"
    /\ res.of = "cmd"
    /\ res.tag = "Ok"
    /\ res.val.kind = "Restart"

\* C30: after every pass of gui(), whatever the buttons report, the power of
\* the manual joystick is Some exactly when the activity is Manual; when the
\* activity is not Manual the loop of the simulator has set the four motor
\* powers to 0; and every assignment that changed the activity to Commands,
\* Camera or Manual found it Idle.
C30_PowerOnlyInManual ==
    /\ ui_state.power.some <=> ui_state.activity = "Manual"
    /\ ui_state.activity # "Manual" => motor_power = <<0, 0, 0, 0>>
    /\ \A m \in ui_state.moves : (m[2] # "Idle" /\ m[2] # m[1]) => m[1] = "Idle"

\* Manual was left, by its CANCEL button, in a pass that also opened and
\* dropped no other activity
C30_Witness ==
    /\ ui_state.activity = "Idle"
    /\ ui_state.moves = {<<"Manual", "Idle">>}
    /\ ~ui_state.power.some
    /\ motor_power = <<0, 0, 0, 0>>

===========================================================================
